---- MODULE Spec2Model ----
(***************************************************************************)
(* token-saver: workspace compression with backups, persistent mode and    *)
(* revert (scripts/optimizer.js, scripts/compressor.js, scripts/index.js,  *)
(* scripts/analyzer.js, scripts/dashboard.js).                             *)
(*                                                                         *)
(* Text.  A file's content is a sequence of atoms.  An atom is a string;   *)
(* the content is the concatenation of its atoms and its length is the     *)
(* sum of their lengths.  Every character a pattern of the program looks   *)
(* at is an atom of its own: the newline, the comma, the colon, the full   *)
(* stop, line-leading '#', '-', '*' and the bullet, the blanks next to     *)
(* them, and every word that a pattern names.  The remaining text sits in  *)
(* atoms that no pattern can split.  Characters outside ASCII are written  *)
(* with one ASCII character per UTF-16 unit: '>' is the arrow U+2192, '^'  *)
(* the bullet U+2022, '~' the dash U+2014 and '%%' the memo sign U+1F4DD; *)
(* the grave accent is written as an apostrophe.                           *)
(***************************************************************************)
EXTENDS Integers, Sequences, FiniteSets, TLC

(***************************************************************************)
(* Strings and text                                                        *)
(***************************************************************************)

RECURSIVE CharLen(_)
\* String.prototype.length of a text
CharLen(t) ==
    IF Len(t) = 0 THEN 0
    ELSE IF Len(t) = 1 THEN Len(t[1])
    ELSE LET h == Len(t) \div 2 IN CharLen(SubSeq(t, 1, h)) + CharLen(SubSeq(t, h + 1, Len(t)))

\* the /i flag: atoms that differ only in case are folded to one spelling
FoldCase(a) ==
    CASE a \in {"When", "WHEN"} -> "when"
      [] a = "Please" -> "please"
      [] a = "Very" -> "very"
      [] a = "Really" -> "really"
      [] a = "The" -> "the"
      [] a = "And" -> "and"
      [] a = "With" -> "with"
      [] a = "this" -> "This"
      [] a = "that" -> "That"
      [] a = "you" -> "You"
      [] a = "it" -> "It"
      [] a = "in" -> "In"
      [] OTHER -> a

Fillers == {"very", "quite", "rather", "really", "actually", "basically", "essentially"}

StopWords == {"the", "and", "or", "but", "with", "from", "into", "during", "including"}

WhiteSpace == {" ", "\t", "\n"}

BulletChars == {"-", "^", "*"}

(***************************************************************************)
(* File names are strings of characters.                                   *)
(***************************************************************************)

\* String.prototype.indexOf on names, 1-based; 0: not found
StrIndexOf(s, sub) ==
    LET at == {i \in 1..(Len(s) - Len(sub) + 1) : SubSeq(s, i, i + Len(sub) - 1) = sub}
    IN IF at = {} THEN 0 ELSE CHOOSE i \in at : \A j \in at : i <= j

\* String.prototype.includes
StrIncludes(s, sub) == StrIndexOf(s, sub) > 0

\* String.prototype.endsWith
StrEndsWith(s, suf) == Len(s) >= Len(suf) /\ SubSeq(s, Len(s) - Len(suf) + 1, Len(s)) = suf

\* String.prototype.startsWith
StrStartsWith(s, pre) == Len(s) >= Len(pre) /\ SubSeq(s, 1, Len(pre)) = pre

\* s.replace(sub, to) with a string pattern: the first occurrence only
StrReplaceFirst(s, sub, to) ==
    LET i == StrIndexOf(s, sub) IN
    IF i = 0 THEN s ELSE SubSeq(s, 1, i - 1) \o to \o SubSeq(s, i + Len(sub), Len(s))

\* String.prototype.substring(0, n) of a text: the atom the cut falls in is cut
Substring(t, n) ==
    LET whole == {k \in 0..Len(t) : CharLen(SubSeq(t, 1, k)) <= n}
        k == CHOOSE i \in whole : \A j \in whole : i >= j
        rest == n - CharLen(SubSeq(t, 1, k))
    IN IF k < Len(t) /\ rest > 0 THEN SubSeq(t, 1, k) \o <<SubSeq(t[k + 1], 1, rest)>>
       ELSE SubSeq(t, 1, k)

\* the least length of a value the key-value rewrite takes: .{100,}
KeyValueMinChars == 100

\* the length the key-value rewrite cuts a value to: substring(0, 50)
KeyValueKeep == 50

(***************************************************************************)
(* Regular expressions, as the sequences of quantified classes that the    *)
(* program's patterns are.  An element is                                   *)
(*   [c: class, lit: atom, ci: /i, lo: least count, hi: greatest count     *)
(*    (0: unbounded), minChars: least length in characters, lazy, cap:     *)
(*    capture group (0: none)].                                            *)
(* The matcher follows every way the JavaScript backtracking engine can    *)
(* take through the pattern at once.  A thread is one such way: where it   *)
(* started, where it stands, its captures and its key, the rank of the     *)
(* count it chose at each quantified element (greedy: most first, lazy:    *)
(* least first).  The engine's match is the thread whose key comes first.  *)
(***************************************************************************)

Lit(a) == [c |-> "lit", lit |-> a, ci |-> FALSE, lo |-> 1, hi |-> 1, minChars |-> 0, lazy |-> FALSE, cap |-> 0]

LitI(a) == [c |-> "lit", lit |-> a, ci |-> TRUE, lo |-> 1, hi |-> 1, minChars |-> 0, lazy |-> FALSE, cap |-> 0]

Cls(c, lo, hi, lazy, cap) == [c |-> c, lit |-> "", ci |-> FALSE, lo |-> lo, hi |-> hi, minChars |-> 0, lazy |-> lazy, cap |-> cap]

ClsI(c, lo, hi, lazy, cap) == [c |-> c, lit |-> "", ci |-> TRUE, lo |-> lo, hi |-> hi, minChars |-> 0, lazy |-> lazy, cap |-> cap]

ClsChars(c, minChars, lazy, cap) == [c |-> c, lit |-> "", ci |-> FALSE, lo |-> 1, hi |-> 0, minChars |-> minChars, lazy |-> lazy, cap |-> cap]

Bol == Cls("bol", 0, 0, FALSE, 0)

Eol == Cls("eol", 0, 0, FALSE, 0)

NlOrEos == Cls("nlOrEos", 0, 0, FALSE, 0)

Anchors == {"bol", "eol", "eos"}

\* ^ and $ under the m flag, $ without it
AnchorOK(c, text, p) ==
    CASE c = "bol" -> p = 1 \/ text[p - 1] = "\n"
      [] c = "eol" -> p = Len(text) + 1 \/ text[p] = "\n"
      [] c = "eos" -> p = Len(text) + 1

\* the atom a as element e reads it: folded under the /i flag
Folded(e, a) == IF e.ci THEN FoldCase(a) ELSE a

\* does the atom a belong to the class of element e
AtomOK(e, a) ==
    CASE e.c = "lit" -> Folded(e, a) = Folded(e, e.lit)
      [] e.c = "ws" -> a \in WhiteSpace
      [] e.c = "dot" -> a # "\n"
      [] e.c = "any" -> TRUE
      [] e.c = "notcomma" -> a # ","
      [] e.c = "nl" -> a = "\n"
      [] e.c = "bullet" -> a \in BulletChars
      [] e.c = "filler" -> Folded(e, a) \in Fillers
      [] e.c = "stop" -> Folded(e, a) \in StopWords

\* the least of a set of numbers
Least(S) == CHOOSE i \in S : \A j \in S : i <= j

\* the greatest of a set of numbers
Greatest(S) == CHOOSE i \in S : \A j \in S : i >= j

\* the first position from p on whose atom element e cannot take, the end included
RunEnd(e, text, p) == Least({i \in p..Len(text) : ~AtomOK(e, text[i])} \cup {Len(text) + 1})

\* the number of atoms from p on that element e can take
RunLen(e, text, p) ==
    IF e.hi = 1 THEN (IF p <= Len(text) /\ AtomOK(e, text[p]) THEN 1 ELSE 0)
    ELSE IF e.hi > 0 THEN Least({e.hi, RunEnd(e, text, p) - p})
    ELSE RunEnd(e, text, p) - p

NoCaps == [g \in 1..5 |-> <<1, 0>>]

NoMatch == [ok |-> FALSE, start |-> 0, end |-> 0, caps |-> NoCaps]

\* the thread t after element e took n atoms of the mx it can take
Take(e, t, n, mx) ==
    [start |-> t.start,
     p |-> t.p + n,
     caps |-> IF e.cap > 0 THEN [t.caps EXCEPT ![e.cap] = <<t.p, t.p + n - 1>>] ELSE t.caps,
     key |-> IF e.hi > 0 /\ e.lo = e.hi THEN t.key
             ELSE Append(t.key, IF e.lazy THEN n - e.lo ELSE mx - n)]

\* the threads that thread t becomes at element e, which can take mx atoms
Takes(e, text, t, mx) ==
    {Take(e, t, n, mx) :
        n \in {k \in e.lo..mx : e.minChars = 0 \/ CharLen(SubSeq(text, t.p, t.p + k - 1)) >= e.minChars}}

\* the threads of fr after element e
Advance(e, text, fr) ==
    IF e.c \in Anchors THEN {t \in fr : AnchorOK(e.c, text, t.p)}
    ELSE IF e.c = "nlOrEos"
    THEN {[t EXCEPT !.p = @ + 1] : t \in {u \in fr : u.p <= Len(text) /\ text[u.p] = "\n"}}
         \cup {t \in fr : t.p = Len(text) + 1}
    ELSE UNION {Takes(e, text, t, RunLen(e, text, t.p)) : t \in fr}

RECURSIVE Run(_, _, _, _)
\* the threads of fr after the elements k.. of re
Run(re, k, text, fr) ==
    IF fr = {} \/ k > Len(re) THEN fr
    ELSE Run(re, k + 1, text, Advance(re[k], text, fr))

\* key a comes before key b: the engine tries a's choices first
KeyBefore(a, b) == \E i \in 1..Len(a) : a[i] < b[i] /\ \A j \in 1..(i - 1) : a[j] = b[j]

\* of the threads done, for each start the one the engine finds first, if it is not empty
FirstFound(done) ==
    {[ok |-> TRUE, start |-> t.start, end |-> t.p, caps |-> t.caps] :
        t \in {u \in done : u.p > u.start /\ \A v \in done : v.start = u.start => ~KeyBefore(v.key, u.key)}}

\* the non-empty matches of re in text, one for each position where one starts
AllMatches(re, text) ==
    IF text = <<>> THEN {}
    ELSE FirstFound(Run(re, 1, text, {[start |-> p, p |-> p, caps |-> NoCaps, key |-> <<>>] : p \in 1..Len(text)}))

\* the leftmost of the matches ms that starts at p or later
Leftmost(ms, p) ==
    LET later == {m \in ms : m.start >= p}
    IN IF later = {} THEN NoMatch ELSE CHOOSE m \in later : \A u \in later : m.start <= u.start

\* a replacement string: items [g |-> 0, a |-> atom] (literal) and [g |-> n, a |-> ""] ($n)
T(a) == [g |-> 0, a |-> a]

G(n) == [g |-> n, a |-> ""]

\* capture group g of the match m in text
Group(text, m, g) == SubSeq(text, m.caps[g][1], m.caps[g][2])

RECURSIVE Expand(_, _, _)
Expand(tpl, text, m) ==
    IF tpl = <<>> THEN <<>>
    ELSE (IF Head(tpl).g = 0 THEN <<Head(tpl).a>> ELSE Group(text, m, Head(tpl).g))
         \o Expand(Tail(tpl), text, m)

RECURSIVE ReplaceFrom(_, _, _, _)
\* the text from p on, with the matches ms that a /g scan meets replaced
ReplaceFrom(ms, text, tpl, p) ==
    LET m == Leftmost(ms, p) IN
    IF ~m.ok THEN SubSeq(text, p, Len(text))
    ELSE SubSeq(text, p, m.start - 1) \o Expand(tpl, text, m) \o ReplaceFrom(ms, text, tpl, m.end)

\* String.prototype.replace(re, tpl) with a /g pattern
ReplaceAll(re, text, tpl) == ReplaceFrom(AllMatches(re, text), text, tpl, 1)

RECURSIVE CountFrom(_, _)
CountFrom(ms, p) ==
    LET m == Leftmost(ms, p) IN
    IF ~m.ok THEN 0 ELSE 1 + CountFrom(ms, m.end)

\* (text.match(re) || []).length with a /g pattern
CountMatches(re, text) == CountFrom(AllMatches(re, text), 1)

(***************************************************************************)
(* WorkspaceCompressor (compressor.js, v2)                                 *)
(***************************************************************************)

\* Math.round(text.length / 4)
WsEstimateTokens(text) == (CharLen(text) + 2) \div 4

RECURSIVE ApplyPatterns(_, _, _)
\* rules.forEach(rule => text = text.replace(rule.pattern, rule.replacement)), rules k..
ApplyPatterns(rules, k, text) ==
    IF k > Len(rules) THEN text
    ELSE ApplyPatterns(rules, k + 1, ReplaceAll(rules[k].pattern, text, rules[k].replacement))

\* applyGeneralCompression(content): this.patterns.workflow, this.patterns.conditional,
\*   /^-\s+(.+?)$/gm to '(bullet) $1', /^#\s+(.+?)$/gm to '## $1', /\n{3,}/g to '\n\n', where
\*   workflow is /When (.+?), (.+?):[\s\n]*1\.\s*(.+?)[\s\n]*2\.\s*(.+?)[\s\n]*3\.\s*(.+)/g,
\*   to '$1 (arrow) $3 (arrow) $4 (arrow) $5', and
\*   conditional is /If (.+?), then (.+?)\. If (.+?), then (.+?)\. Otherwise (.+?)\./g,
\*   to '$1? $2 : $3? $4 : $5'
WsGeneralRules ==
    <<[pattern |-> <<Lit("When"), Lit(" "), Cls("dot", 1, 0, TRUE, 1), Lit(","), Lit(" "),
                    Cls("dot", 1, 0, TRUE, 2), Lit(":"), Cls("ws", 0, 0, FALSE, 0), Lit("1"),
                    Lit("."), Cls("ws", 0, 0, FALSE, 0), Cls("dot", 1, 0, TRUE, 3), Cls("ws", 0,
                    0, FALSE, 0), Lit("2"), Lit("."), Cls("ws", 0, 0, FALSE, 0), Cls("dot", 1,
                    0, TRUE, 4), Cls("ws", 0, 0, FALSE, 0), Lit("3"), Lit("."), Cls("ws", 0, 0,
                    FALSE, 0), Cls("dot", 1, 0, FALSE, 5)>>,
       replacement |-> <<G(1), T(" "), T(">"), T(" "), G(3), T(" "), T(">"), T(" "), G(4),
                        T(" "), T(">"), T(" "), G(5)>>],
      [pattern |-> <<Lit("If"), Lit(" "), Cls("dot", 1, 0, TRUE, 1), Lit(","), Lit(" "),
                    Lit("then"), Lit(" "), Cls("dot", 1, 0, TRUE, 2), Lit("."), Lit(" "),
                    Lit("If"), Lit(" "), Cls("dot", 1, 0, TRUE, 3), Lit(","), Lit(" "),
                    Lit("then"), Lit(" "), Cls("dot", 1, 0, TRUE, 4), Lit("."), Lit(" "),
                    Lit("Otherwise"), Lit(" "), Cls("dot", 1, 0, TRUE, 5), Lit(".")>>,
       replacement |-> <<G(1), T("?"), T(" "), G(2), T(" "), T(":"), T(" "), G(3), T("?"),
                        T(" "), G(4), T(" "), T(":"), T(" "), G(5)>>],
      [pattern |-> <<Bol, Lit("-"), Cls("ws", 1, 0, FALSE, 0), Cls("dot", 1, 0, TRUE, 1), Eol>>,
       replacement |-> <<T("^"), T(" "), G(1)>>],
      [pattern |-> <<Bol, Lit("#"), Cls("ws", 1, 0, FALSE, 0), Cls("dot", 1, 0, TRUE, 1), Eol>>,
       replacement |-> <<T("#"), T("#"), T(" "), G(1)>>],
      [pattern |-> <<Cls("nl", 3, 0, FALSE, 0)>>,
       replacement |-> <<T("\n"), T("\n")>>]>>

\* a general compression that ends its result with one more line break
WsApplyGeneralCompressionMutant(content) == ApplyPatterns(WsGeneralRules, 1, content) \o <<"\n">>

WsApplyGeneralCompression(content) == ApplyPatterns(WsGeneralRules, 1, content)

\* the text compressMemoryFile returns
MemoryTemplate ==
    <<"#", " ", "MEMORY", ".", "md", " ", "- Key", " ", "Context", "\n", "\n", "RUBEN", ":",
      " ", "direct/practical", ",", " ", "values-efficiency", ",", " ", "proactive-help", "\n",
      "MORNING", ":", " ", "greeting > review(todos+pending+urgent)", "\n", "VOICE", ":", " ",
      "mobile-preferred", ",", " ", "concise", "\n", "\n", "TASKS-RESEARCH", ":", " ",
      "crypto-whale-watch", ",", " ", "twitter-monitor", ",", " ", "RSS-feeds", ",", " ",
      "gov-RFPs", "\n", "TASKS-BUSINESS", ":", " ", "email-access", ",", " ", "calendar", ",",
      " ", "lead-tracking", " ", " ", "\n", "TASKS-DEV", ":", " ", "github-cli", ",", " ",
      "git-automation", "\n", "\n", "MPP", ":", " ", "psych-testing", ",", " ", "Lexington-SC",
      ",", " ", "VA-contracts", ",", " ", "website-pending", "\n", "ORO", ":", " ",
      "veteran-remodel", ",", " ", "Columbia+Charlotte", ",", " ", "kitchen+bath+floor", ",",
      " ", "struggling-financially", "\n", "\n", "GOOGLE-ADS-ACTIVE", ":", " ",
      "Leads-Search-", "1", "($5/day) + Leads-PMax-", "1", "($5/day)", ",", " ",
      "conversions-fixed-Feb1", "\n", "ORO-INFO", ":", " ", "(803)868-9769", ",", " ",
      "office@orohomes", ".", "net", ",", " ", "GA4", ":", "513969401", "\n", "\n", "SECURITY",
      ":", " ", "Tailscale-3devices", ",", " ", "RDP-fixed", ",", " ", "Malwarebytes-active",
      "\n", "SYSTEM", ":", " ", "Sonnet4-default", ",", " ", "Gemini-cron", ",", " ",
      "Opus-subagents-only", ",", " ", "token-optimization-active", "\n", "\n", "LESSONS", ":",
      " ", "delegate-heavy-work", ",", " ", "proactive-data-ready", ",", " ",
      "cron-Sonnet-not-Gemini">>

\* the text compressUserFile returns
UserTemplate ==
    <<"#", "#", " ", "USER", ".", "md", " ", "- About Your Human", "\n", "^", " ", "**Name",
      ":", "** Ruben", "\n", "^", " ", "**TZ", ":", "** America/New_York", " ", " ", "\n", "^",
      " ", "**Telegram", ":", "** @JayR2023 (1626735952)", "\n", "\n", "#", "#", "#", " ",
      "Context", "\n", "ROLES", ":", " ", "IT",
      "-eng(day-job) + COO(MPP) + owner(ORO-priority)", "\n", "REALITY", ":", " ",
      "ORO-struggling", ",", " ", "time-limited", ",", " ", "debt+employees", "\n", "GOALS",
      ":", " ", "1", ")ORO-revenue-URGENT", " ", "2", ")automate-backend", " ", "3",
      ")buy-time", "\n", "\n", "SOLVE", ":", " ",
      "momentum>blocker?>brainstorm>optimize(closest+easiest+fastest)", "\n", "DECIDE", ":",
      " ", "data? data-backed", " ", ":", " ", "simulate-outcomes">>

WsCompressMemoryFile(content) == MemoryTemplate

WsCompressUserFile(content) == UserTemplate

\* compressAgentsFile(content): /When you receive (.+?), (.+?):/g to '$1 (arrow) $2:' and
\*   /If (.+?), (.+?)\. If (.+?), (.+?)\./g to '$1? $2 : $3? $4'
WsAgentsRules ==
    <<[pattern |-> <<Lit("When"), Lit(" "), Lit("you"), Lit(" "), Lit("receive"), Lit(" "),
                    Cls("dot", 1, 0, TRUE, 1), Lit(","), Lit(" "), Cls("dot", 1, 0, TRUE, 2),
                    Lit(":")>>,
       replacement |-> <<G(1), T(" "), T(">"), T(" "), G(2), T(":")>>],
      [pattern |-> <<Lit("If"), Lit(" "), Cls("dot", 1, 0, TRUE, 1), Lit(","), Lit(" "),
                    Cls("dot", 1, 0, TRUE, 2), Lit("."), Lit(" "), Lit("If"), Lit(" "),
                    Cls("dot", 1, 0, TRUE, 3), Lit(","), Lit(" "), Cls("dot", 1, 0, TRUE, 4),
                    Lit(".")>>,
       replacement |-> <<G(1), T("?"), T(" "), G(2), T(" "), T(":"), T(" "), G(3), T("?"),
                        T(" "), G(4)>>]>>

WsCompressAgentsFile(content) == ApplyPatterns(WsAgentsRules, 1, content)

WsCompressContent(content, filename) ==
    IF filename = "MEMORY.md" THEN WsCompressMemoryFile(content)
    ELSE IF filename = "USER.md" THEN WsCompressUserFile(content)
    ELSE IF filename = "AGENTS.md" THEN WsCompressAgentsFile(content)
    ELSE WsApplyGeneralCompression(content)

(***************************************************************************)
(* AICompressor (compressor.js)                                            *)
(***************************************************************************)

\* Math.ceil(text.length / 4)
EstimateTokens(text) == (CharLen(text) + 3) \div 4

\* the pattern that matches the atoms of lits one after the other
Lits(lits) == [i \in 1..Len(lits) |-> Lit(lits[i])]

\* the replacement string that is the text itself
Const(text) == [i \in 1..Len(text) |-> T(text[i])]

\* .* under the s flag
AnyRun == Cls("any", 0, 0, FALSE, 0)

\* this.compressionPatterns, in order, each with its replacement:
\*   /When\s+([^,]+),\s*(.+)/gi to '$1 (arrow) $2',
\*   /In order to\s+([^,]+),\s*(.+)/gi to 'GOAL: $1 (arrow) $2',
\*   /It is important to\s+(.+)/gi to 'CRITICAL: $1', /You should\s+(.+)/gi to 'DO: $1',
\*   /Please\s+(.+)/gi to '$1',
\*   /\b(very|quite|rather|really|actually|basically|essentially)\s+/gi to ''
CompressionPatterns ==
    <<[pattern |-> <<LitI("When"), Cls("ws", 1, 0, FALSE, 0), Cls("notcomma", 1, 0, FALSE, 1),
                    Lit(","), Cls("ws", 0, 0, FALSE, 0), Cls("dot", 1, 0, FALSE, 2)>>,
       replacement |-> <<G(1), T(" "), T(">"), T(" "), G(2)>>],
      [pattern |-> <<LitI("In"), Lit(" "), LitI("order"), Lit(" "), LitI("to"), Cls("ws", 1, 0,
                    FALSE, 0), Cls("notcomma", 1, 0, FALSE, 1), Lit(","), Cls("ws", 0, 0, FALSE,
                    0), Cls("dot", 1, 0, FALSE, 2)>>,
       replacement |-> <<T("GOAL"), T(":"), T(" "), G(1), T(" "), T(">"), T(" "), G(2)>>],
      [pattern |-> <<LitI("It"), Lit(" "), LitI("is"), Lit(" "), LitI("important"), Lit(" "),
                    LitI("to"), Cls("ws", 1, 0, FALSE, 0), Cls("dot", 1, 0, FALSE, 1)>>,
       replacement |-> <<T("CRITICAL"), T(":"), T(" "), G(1)>>],
      [pattern |-> <<LitI("You"), Lit(" "), LitI("should"), Cls("ws", 1, 0, FALSE, 0), Cls("dot",
                    1, 0, FALSE, 1)>>,
       replacement |-> <<T("DO"), T(":"), T(" "), G(1)>>],
      [pattern |-> <<LitI("Please"), Cls("ws", 1, 0, FALSE, 0), Cls("dot", 1, 0, FALSE, 1)>>,
       replacement |-> <<G(1)>>],
      [pattern |-> <<ClsI("filler", 1, 1, FALSE, 1), Cls("ws", 1, 0, FALSE, 0)>>,
       replacement |-> <<>>]>>

\* compressUserFile(content):
\*   /Senior IT engineer.*Missing Pieces Psychology.*ORO Homes LLC.*/gs and
\*   /Forward momentum.*Select the path that gets closest.*/gs, each to a fixed text
AiUserRules ==
    <<[pattern |-> Lits(<<"Senior", " ", "IT", " ", "engineer">>) \o <<AnyRun>>
                    \o Lits(<<"Missing Pieces Psychology">>) \o <<AnyRun>>
                    \o Lits(<<"ORO Homes LLC">>) \o <<AnyRun>>,
       replacement |-> Const(<<"ROLES", ":", " ", "IT", "-eng + COO(MPP) + owner(ORO)", "\n",
                        "CONTEXT", ":", " ", "day-job + 2businesses", ",", " ", "ORO-priority",
                        ",", " ", "time-limited">>)],
      [pattern |-> Lits(<<"Forward momentum">>) \o <<AnyRun>>
                    \o Lits(<<"Select", " ", "the", " ", "path", " ", "that", " ", "gets closest">>)
                    \o <<AnyRun>>,
       replacement |-> Const(<<"APPROACH", ":", " ",
                        "momentum>brainstorm>optimize>data-backed>simulate-unknowns">>)]>>

\* compressMemoryFile(content):
\*   /When Ruben greets me in the morning.*Check if there's anything urgent/gs and
\*   /Direct, practical.*Have research and data ready BEFORE Ruben asks.*/gs, each to a fixed text
AiMemoryRules ==
    <<[pattern |-> Lits(<<"When", " ", "Ruben greets me", " ", "in", " ", "the", " ", "morning">>)
                    \o <<AnyRun>>
                    \o Lits(<<"Check", " ", "if", " ", "there's anything urgent">>),
       replacement |-> Const(<<"MORNING", ":", " ", "greeting > review(todos", ",", "pending",
                        ",", "urgent)">>)],
      [pattern |-> Lits(<<"Direct", ",", " ", "practical">>) \o <<AnyRun>>
                    \o Lits(<<"Have research", " ", "and", " ", "data ready BEFORE Ruben asks">>)
                    \o <<AnyRun>>,
       replacement |-> Const(<<"STYLE", ":", " ", "direct", ",", "practical", ",", "proactive",
                        "\n", "RULE", ":", " ", "research-ready pre-ask", ",", " ",
                        "delegate>30s">>)]>>

\* compressAgentsFile(content): /Ground every claim.*check data, don't assume/gs to a fixed text
AiAgentsRules ==
    <<[pattern |-> Lits(<<"Ground every claim">>) \o <<AnyRun>>
                    \o Lits(<<"check data", ",", " ", "don't assume">>),
       replacement |-> Const(<<"PRINCIPLES", ":", " ", "ground-claims", ",", " ",
                        "express-uncertainty", ",", " ", "verify-first", ",", " ",
                        "confidence-thresholds">>)]>>

\* the file-specific rules of applyCompressionRules
FileRules(filename) ==
    IF StrIncludes(filename, "USER.md") THEN AiUserRules
    ELSE IF StrIncludes(filename, "MEMORY.md") THEN AiMemoryRules
    ELSE IF StrIncludes(filename, "AGENTS.md") THEN AiAgentsRules
    ELSE <<>>

ApplyCompressionRules(content, filename) ==
    ApplyPatterns(FileRules(filename), 1, ApplyPatterns(CompressionPatterns, 1, content))

\* convertToAINotation(content, filename), the first three replaces:
\*   /^[\s]*[-(bullet)\*]\s*(.+)$/gm to '(bullet) $1', /^## (.+)$/gm to '### $1', /^# (.+)$/gm to '## $1'
NotationRules ==
    <<[pattern |-> <<Bol, Cls("ws", 0, 0, FALSE, 0), Cls("bullet", 1, 1, FALSE, 0), Cls("ws", 0,
                    0, FALSE, 0), Cls("dot", 1, 0, FALSE, 1), Eol>>,
       replacement |-> <<T("^"), T(" "), G(1)>>],
      [pattern |-> <<Bol, Lit("#"), Lit("#"), Lit(" "), Cls("dot", 1, 0, FALSE, 1), Eol>>,
       replacement |-> <<T("#"), T("#"), T("#"), T(" "), G(1)>>],
      [pattern |-> <<Bol, Lit("#"), Lit(" "), Cls("dot", 1, 0, FALSE, 1), Eol>>,
       replacement |-> <<T("#"), T("#"), T(" "), G(1)>>]>>

KeyValuePattern == <<Cls("dot", 1, 0, TRUE, 1), Lit(":"), Lit(" "), ClsChars("dot", KeyValueMinChars, TRUE, 2), NlOrEos>>

\* value.replace(/\s+/g, ' ').replace(/\b(the|and|or|but|with|from|into|during|including)\b\s*/gi, '')
ValueRules ==
    <<[pattern |-> <<Cls("ws", 1, 0, FALSE, 0)>>,
       replacement |-> <<T(" ")>>],
      [pattern |-> <<ClsI("stop", 1, 1, FALSE, 1), Cls("ws", 0, 0, FALSE, 0)>>,
       replacement |-> <<>>]>>

\* the value of a key-value pair as the rewrite leaves it: ... .substring(0, 50)
CompressValue(value) == Substring(ApplyPatterns(ValueRules, 1, value), KeyValueKeep)

RECURSIVE ReplaceKeyValues(_, _, _)
\* content.replace(KeyValuePattern, (match, key, value) => "${key}: ${compressed}...\n")
ReplaceKeyValues(ms, text, p) ==
    LET m == Leftmost(ms, p) IN
    IF ~m.ok THEN SubSeq(text, p, Len(text))
    ELSE SubSeq(text, p, m.start - 1) \o Group(text, m, 1) \o <<":", " ">>
         \o CompressValue(Group(text, m, 2)) \o <<".", ".", ".", "\n">>
         \o ReplaceKeyValues(ms, text, m.end)

\* the last replace of convertToAINotation, on the text the first three left
CompressKeyValues(text) == ReplaceKeyValues(AllMatches(KeyValuePattern, text), text, 1)

ConvertToAINotation(content, filename) == CompressKeyValues(ApplyPatterns(NotationRules, 1, content))

\* the text AICompressor.compressFile computes for a file's content
AiCompress(content, filename) == ConvertToAINotation(ApplyCompressionRules(content, filename), filename)

(***************************************************************************)
(* Texts: String.prototype operations on contents                          *)
(***************************************************************************)

\* the atoms positions where sub occurs in text
Occurrences(text, sub) ==
    {i \in 1..(Len(text) - Len(sub) + 1) : SubSeq(text, i, i + Len(sub) - 1) = sub}

\* content.indexOf(sub), as the atom it starts at; 0: not found
IndexOf(text, sub) ==
    LET at == Occurrences(text, sub)
    IN IF at = {} THEN 0 ELSE CHOOSE i \in at : \A j \in at : i <= j

\* content.includes(sub)
Includes(text, sub) == Occurrences(text, sub) # {}

\* String.prototype.trimEnd
TrimEnd(text) ==
    LET keep == {i \in 1..Len(text) : text[i] \notin WhiteSpace}
    IN IF keep = {} THEN <<>> ELSE SubSeq(text, 1, CHOOSE i \in keep : \A j \in keep : i >= j)

(***************************************************************************)
(* Persistent mode (optimizer.js)                                          *)
(***************************************************************************)

\* const marker = "## (memo) Token Saver (dash) Persistent Mode": 4 atoms, 35 characters
PersistentMarker ==
    <<"#", "#", " ", "%% Token Saver ~ Persistent Mode">>

\* const instruction: a newline, the marker and the section under it; 135 atoms, 671 characters
PersistentInstruction ==
    <<"\n", "#", "#", " ", "%% Token Saver ~ Persistent Mode", "\n", "*", "*", "Status", ":",
      " ", "ENABLED** ~ Turn off", " ", "with", " ", "'/optimize revert'", "\n", "\n", "When",
      " ", "writing", " ", "to", " ", "workspace", " ", ".", "md", " ", "files (", "MEMORY",
      ".", "md", ",", " ", "USER", ".", "md", ",", " ", "TOOLS", ".", "md", ",", " ", "SOUL",
      ".", "md", ",", " ", "etc", ".", ")", ",", "\n", "always use AI-efficient notation", ":",
      "\n", "-", " ", "Dense key", ":", "value format over verbose paragraphs", "\n", "-", " ",
      "Symbols over words (>", ",", " ", "+", ",", " ", "|", ",", " ", "&)", " ", " ", "\n",
      "-", " ", "Abbreviations over full phrases", "\n", "-", " ",
      "One-liners over multi-line explanations", "\n", "-", " ", "Preserve all meaning", ",",
      " ", "minimize all tokens", "\n", "\n", "*", "*", "Example", ":",
      "** Instead of writing \"Ruben prefers", " ", "to", " ", "receive", " ",
      "brief morning updates", " ", "\n", "with", " ", "a review of tasks", " ", "and", " ",
      "any urgent items\"", ",", " ", "write", ":", "\n", "'MORNING", ":", " ",
      "greeting > review(todos+pending+urgent)'", "\n", "\n", "This", " ", "keeps", " ",
      "workspace", " ", "files lean so they cost less on every API call", ".", "\n">>

(***************************************************************************)
(* TokenAnalyzer (analyzer.js)                                             *)
(***************************************************************************)

\* Math.ceil(text.length / 4)
AnalyzerEstimateTokens(text) == (CharLen(text) + 3) \div 4

\* the number of places where the words of phrase stand in content, whatever their case
CountPhrase(content, phrase) ==
    Cardinality({i \in 1..(Len(content) - Len(phrase) + 1) :
                   \A k \in 1..Len(phrase) : FoldCase(content[i + k - 1]) = FoldCase(phrase[k])})

\* /\b(When|Please|In order to|It is important|You should|This is|That is)\b/gi
VerbosePhrases ==
    {<<"When">>, <<"Please">>, <<"In", " ", "order", " ", "to">>,
     <<"It", " ", "is", " ", "important">>, <<"You", " ", "should">>,
     <<"This", " ", "is">>, <<"That", " ", "is">>}

\* (content.match(indicators.verbose) || []).length
VerboseMatches(content) ==
    LET n[ps \in SUBSET VerbosePhrases] ==
            IF ps = {} THEN 0
            ELSE LET ph == CHOOSE x \in ps : TRUE IN CountPhrase(content, ph) + n[ps \ {ph}]
    IN n[VerbosePhrases]

\* (content.match(indicators.repetitive) || []).length
RepetitiveMatches(content) == Cardinality({i \in 1..Len(content) : FoldCase(content[i]) \in StopWords})

\* (content.match(indicators.filler) || []).length
FillerMatches(content) == Cardinality({i \in 1..Len(content) : FoldCase(content[i]) \in Fillers})

\* content.split('.').filter(s => s.length > 100).length
LongSentences(content) ==
    LET stops == {i \in 1..Len(content) : content[i] = "."} \cup {0, Len(content) + 1}
        next(i) == CHOOSE j \in stops : j > i /\ \A k \in stops : k > i => j <= k
    IN Cardinality({i \in stops \ {Len(content) + 1} :
                      CharLen(SubSeq(content, i + 1, next(i) - 1)) > 100})

\* /^[\s]*[-*(bullet)]/gm
BulletStart == <<Bol, Cls("ws", 0, 0, FALSE, 0), Cls("bullet", 1, 1, FALSE, 0)>>

\* (content.match(/^[\s]*[-*(bullet)]/gm) || []).length
BulletPoints(content) == CountMatches(BulletStart, content)

\* twice the score: 2 verbose + 0.5 repetitive + 3 filler + 5 long + Math.max(0, 20 - bullets)
TwiceScore(content) ==
    4 * VerboseMatches(content) + RepetitiveMatches(content) + 6 * FillerMatches(content)
    + 10 * LongSentences(content) + 2 * Greatest({0, 20 - BulletPoints(content)})

\* a score that is rounded down and has no upper limit
AssessCompressionPotentialMutant(content) == TwiceScore(content) \div 2

\* Math.floor(Math.min(100, score))
AssessCompressionPotential(content) == Least({100, TwiceScore(content) \div 2})

(***************************************************************************)
(* The workspace directory: a function from the names of its files to      *)
(* their contents.                                                         *)
(***************************************************************************)

Range(s) == {s[i] : i \in DOMAIN s}

\* the workspace path the commands run in
WorkspacePath == "/ws"

\* path.join(workspacePath, name)
JoinPath(name) == WorkspacePath \o "/" \o name

\* path.basename(p), and the key of the file at p in the directory
Basename(p) == SubSeq(p, Len(WorkspacePath) + 2, Len(p))

\* the order fs.readdirSync lists the names in: by name
DirOrder ==
    <<"AGENTS.md", "AGENTS.md.backup", "SOUL.compressed.md", "SOUL.compressed.md.backup",
      "SOUL.md", "SOUL.md.backup">>

\* fs.readdirSync(workspacePath)
ReadDir(dir) == SelectSeq(DirOrder, LAMBDA n : n \in DOMAIN dir)

\* fs.existsSync(p)
ExistsSync(dir, p) == Basename(p) \in DOMAIN dir

\* fs.writeFileSync(p, content)
WriteFileSync(dir, p, content) ==
    [n \in DOMAIN dir \cup {Basename(p)} |-> IF n = Basename(p) THEN content ELSE dir[n]]

\* fs.copyFileSync(src, dst)
CopyFileSync(dir, src, dst) == WriteFileSync(dir, dst, dir[Basename(src)])

\* fs.unlinkSync(p)
UnlinkSync(dir, p) == [n \in DOMAIN dir \ {Basename(p)} |-> dir[n]]

\* filePath + '.backup'
BackupPath(p) == p \o ".backup"

\* backupPath.replace('.backup', '')
OriginalPath(backupPath) == StrReplaceFirst(backupPath, ".backup", "")

\* inputPath.replace(/\.md$/, '.compressed.md')
CompressedPath(inputPath) ==
    IF StrEndsWith(inputPath, ".md")
    THEN SubSeq(inputPath, 1, Len(inputPath) - 3) \o ".compressed.md"
    ELSE inputPath

(***************************************************************************)
(* TokenAnalyzer: file discovery                                           *)
(***************************************************************************)

\* config.workspaceFiles.common
KnownFiles ==
    <<"SOUL.md", "USER.md", "AGENTS.md", "MEMORY.md", "HEARTBEAT.md", "TOOLS.md", "IDENTITY.md">>

\* config.workspaceFiles.exclude
ExcludeList == <<"README.md", "CHANGELOG.md", "LICENSE.md", "*.backup", "*.compressed.md">>

\* new RegExp(pattern.replace(/\*/g, '.*').replace(/\./g, '\\.')).test(filename) for a
\* pattern "*rest": the second replace also takes the full stop the first one wrote, so
\* the star becomes "\.*", any number of full stops, and nothing anchors the expression.
\* The test is whether rest occurs somewhere in the name.
GlobTest(pattern, filename) == StrIncludes(filename, SubSeq(pattern, 2, Len(pattern)))

ShouldExcludeFile(filename) ==
    \E i \in DOMAIN ExcludeList :
        IF StrIncludes(ExcludeList[i], "*") THEN GlobTest(ExcludeList[i], filename)
        ELSE filename = ExcludeList[i]

UpperCase == "ABCDEFGHIJKLMNOPQRSTUVWXYZ"

LowerCase == "abcdefghijklmnopqrstuvwxyz"

RECURSIVE ToLowerCase(_)
\* the name in lower case, as the /i flag sees it
ToLowerCase(s) ==
    IF Len(s) = 0 THEN s
    ELSE IF Len(s) = 1
    THEN LET i == StrIndexOf(UpperCase, s) IN IF i = 0 THEN s ELSE SubSeq(LowerCase, i, i)
    ELSE LET h == Len(s) \div 2 IN ToLowerCase(SubSeq(s, 1, h)) \o ToLowerCase(SubSeq(s, h + 1, Len(s)))

\* /^[A-Z_]+\.md$/i.test(filename) || /config|prompt|context|instruction/i.test(filename)
LooksLikeConfig(filename) ==
    LET low == ToLowerCase(filename) IN
    \/ /\ Len(low) > 3
       /\ StrEndsWith(low, ".md")
       /\ \A i \in 1..(Len(low) - 3) : SubSeq(low, i, i) = "_" \/ StrIncludes(LowerCase, SubSeq(low, i, i))
    \/ \E w \in {"config", "prompt", "context", "instruction"} : StrIncludes(low, w)

\* /first.*second/i.test(content): the two words on one line, in this order
WordsOnOneLine(content, first, second) ==
    \E i \in 1..Len(content) : \E j \in (i + 1)..Len(content) :
        /\ FoldCase(content[i]) = first
        /\ FoldCase(content[j]) = second
        /\ \A k \in i..j : content[k] # "\n"

\* workspaceIndicators.some(pattern => pattern.test(content))
HasWorkspaceContent(content) ==
    \/ \E n \in {"SOUL", "USER", "AGENTS", "MEMORY", "HEARTBEAT", "TOOLS", "IDENTITY"} :
           CountPhrase(content, <<"#", " ", n, ".", "md">>) > 0
    \/ WordsOnOneLine(content, "workspace", "context")
    \/ WordsOnOneLine(content, "system", "prompt")
    \/ WordsOnOneLine(content, "agent", "config")

\* isWorkspaceFile(filename, filePath); a file that cannot be read is no workspace file
IsWorkspaceFile(dir, noRead, filename) ==
    IF filename \in Range(KnownFiles) THEN TRUE
    ELSE IF filename \in noRead THEN FALSE
    ELSE HasWorkspaceContent(dir[filename])
         \/ (CharLen(dir[filename]) > 500 /\ LooksLikeConfig(filename))

\* priority[name] || 99
Priority(name) ==
    IF name \in Range(KnownFiles) THEN CHOOSE i \in DOMAIN KnownFiles : KnownFiles[i] = name ELSE 99

\* Array.prototype.sort by priority; the sort is stable
SortByPriority(files) ==
    LET before(i) == {j \in DOMAIN files :
                        \/ Priority(files[j]) < Priority(files[i])
                        \/ Priority(files[j]) = Priority(files[i]) /\ j < i}
    IN [k \in DOMAIN files |-> files[CHOOSE i \in DOMAIN files : Cardinality(before(i)) = k - 1]]

\* discoverWorkspaceFiles(workspacePath)
DiscoverWorkspaceFiles(dir, noRead) ==
    SortByPriority(SelectSeq(ReadDir(dir),
        LAMBDA file : StrEndsWith(file, ".md") /\ ~ShouldExcludeFile(file) /\ IsWorkspaceFile(dir, noRead, file)))

(***************************************************************************)
(* A command's run.  dir is the directory as it stands, start the          *)
(* directory the command found, noRead the files whose read fails.  The    *)
(* run logs every write of new content to a workspace file (writes), what  *)
(* it did file by file (results), what it measured (analysis), the loops   *)
(* over files it ran (batches),                                            *)
(* the files it restored, what the last function returned, whether an      *)
(* exception left the function (threw) and the savings label it showed.    *)
(***************************************************************************)

NewRun(dir, noRead) ==
    [dir |-> dir, start |-> dir, noRead |-> noRead, writes |-> <<>>, results |-> <<>>,
     analysis |-> <<>>, batches |-> <<>>, restored |-> <<>>, returned |-> FALSE, threw |-> FALSE,
     label |-> "none"]

\* the write of new content to the file at p, with the directory dir as it stands just
\* before the write: the file's content when the command started and its backup now
WriteRecord(dir, start, p, kind, originalTokens, compressedTokens) ==
    [file |-> Basename(p),
     kind |-> kind,
     before |-> IF Basename(p) \in DOMAIN start THEN <<start[Basename(p)]>> ELSE <<>>,
     backup |-> IF ExistsSync(dir, BackupPath(p)) THEN <<dir[Basename(BackupPath(p))]>> ELSE <<>>,
     originalTokens |-> originalTokens,
     compressedTokens |-> compressedTokens]

\* one loop over files: those the loop was to visit, those it handled, those it reported
Batch(op, discovered, processed, reported) ==
    [op |-> op, discovered |-> discovered, processed |-> processed, reported |-> reported]

(***************************************************************************)
(* WorkspaceCompressor: files (compressor.js, v2)                          *)
(***************************************************************************)

\* discoverFiles(workspacePath); every entry of the directory is a file
DiscoverFiles(dir) ==
    LET entries == SelectSeq(ReadDir(dir),
            LAMBDA entry : StrEndsWith(entry, ".md") /\ ~StrStartsWith(entry, ".")
                           /\ ~StrEndsWith(entry, ".backup"))
    IN [i \in DOMAIN entries |-> JoinPath(entries[i])]

\* compressedTokens < originalTokens
HasBenefit(originalTokens, compressedTokens) == compressedTokens < originalTokens

\* the end of compressFile(filePath): the backup is made (backedUp) and the content compressed
WsReplaceFile(run, filePath, backedUp, compressedContent) ==
    LET filename == Basename(filePath)
        originalTokens == WsEstimateTokens(run.dir[filename])
        compressedTokens == WsEstimateTokens(compressedContent)
    IN IF HasBenefit(originalTokens, compressedTokens)
       THEN [run EXCEPT
               !.dir = WriteFileSync(backedUp, filePath, compressedContent),
               !.writes = Append(@, WriteRecord(backedUp, run.start, filePath, "compressed",
                                                originalTokens, compressedTokens)),
               !.results = Append(@, [success |-> TRUE, filename |-> filename,
                                      tokensSaved |-> originalTokens - compressedTokens])]
       ELSE [run EXCEPT
               !.dir = UnlinkSync(backedUp, BackupPath(filePath)),
               !.results = Append(@, [success |-> FALSE, filename |-> filename, tokensSaved |-> 0])]

\* compressFile(filePath)
WsCompressFile(run, filePath) ==
    IF run.threw THEN run
    ELSE IF Basename(filePath) \in run.noRead THEN [run EXCEPT !.threw = TRUE]
    ELSE WsReplaceFile(run, filePath, CopyFileSync(run.dir, filePath, BackupPath(filePath)),
                       WsCompressContent(run.dir[Basename(filePath)], Basename(filePath)))

RECURSIVE WsCompressFrom(_, _, _)
\* for (const filePath of files) results.push(this.compressFile(filePath)), files k..
WsCompressFrom(files, k, run) ==
    IF k > Len(files) THEN run
    ELSE WsCompressFrom(files, k + 1, WsCompressFile(run, files[k]))

\* the names of the files at the paths
Names(paths) == [i \in DOMAIN paths |-> Basename(paths[i])]

\* the names of the results from the n-th on
ResultNames(results, n) == [i \in 1..(Len(results) - n) |-> results[n + i].filename]

\* the run done with the loop op over the files discovered, which started from the run before
LogBatch(op, before, discovered, done) ==
    [done EXCEPT !.batches = Append(@, Batch(op, discovered,
                                             ResultNames(done.results, Len(before.results)), <<>>))]

\* compressWorkspaceFiles(workspacePath)
CompressWorkspaceFiles(run) ==
    IF run.threw THEN run
    ELSE LogBatch("compressWorkspaceFiles", run, Names(DiscoverFiles(run.dir)),
                  WsCompressFrom(DiscoverFiles(run.dir), 1, run))

\* previewFile(filePath)
PreviewFile(run, filePath) ==
    LET filename == Basename(filePath)
        content == run.dir[filename]
    IN IF run.threw THEN run
       ELSE IF filename \in run.noRead THEN [run EXCEPT !.threw = TRUE]
       ELSE [run EXCEPT !.results = Append(@,
                [success |-> TRUE, filename |-> filename,
                 tokensSaved |-> WsEstimateTokens(content)
                                 - WsEstimateTokens(WsCompressContent(content, filename))])]

RECURSIVE PreviewFrom(_, _, _)
\* for (const filePath of files) previews.push(this.previewFile(filePath)), files k..
PreviewFrom(files, k, run) ==
    IF k > Len(files) THEN run
    ELSE PreviewFrom(files, k + 1, PreviewFile(run, files[k]))

\* the previews, greatest saving first; the sort is stable
SortBySaving(previews) ==
    LET before(i) == {j \in DOMAIN previews :
                        \/ previews[j].tokensSaved > previews[i].tokensSaved
                        \/ previews[j].tokensSaved = previews[i].tokensSaved /\ j < i}
    IN [k \in DOMAIN previews |->
           previews[CHOOSE i \in DOMAIN previews : Cardinality(before(i)) = k - 1]]

\* return previews.sort(...), which a throw in the loop does not reach
SortPreviews(done) == IF done.threw THEN done ELSE [done EXCEPT !.results = SortBySaving(@)]

\* previewOptimizations(workspacePath)
PreviewOptimizations(run) ==
    IF run.threw THEN run
    ELSE SortPreviews(LogBatch("previewOptimizations", run, Names(DiscoverFiles(run.dir)),
                               PreviewFrom(DiscoverFiles(run.dir), 1, run)))

(***************************************************************************)
(* TokenOptimizerV2 (optimizer.js)                                         *)
(***************************************************************************)

\* a test for the marker that never finds it
AlreadyEnabledMutant(content) == FALSE

\* content.includes(marker)
AlreadyEnabled(content) == Includes(content, PersistentMarker)

\* a backup step that copies nothing
BackupAgentsMutant(dir, agentsPath, backupPath) == dir

\* if (!fs.existsSync(backupPath)) fs.copyFileSync(agentsPath, backupPath)
BackupAgents(dir, agentsPath, backupPath) ==
    IF ~ExistsSync(dir, backupPath) THEN CopyFileSync(dir, agentsPath, backupPath) ELSE dir

\* enablePersistentMode(workspacePath)
EnablePersistentMode(run) ==
    LET agentsPath == JoinPath("AGENTS.md")
        content == run.dir["AGENTS.md"]
        backedUp == BackupAgents(run.dir, agentsPath, BackupPath(agentsPath))
    IN IF run.threw THEN run
       ELSE IF ~ExistsSync(run.dir, agentsPath) THEN [run EXCEPT !.returned = FALSE]
       ELSE IF "AGENTS.md" \in run.noRead THEN [run EXCEPT !.threw = TRUE]
       ELSE IF AlreadyEnabled(content) THEN [run EXCEPT !.returned = FALSE]
       ELSE [run EXCEPT
               !.dir = WriteFileSync(backedUp, agentsPath, content \o PersistentInstruction),
               !.writes = Append(@, WriteRecord(backedUp, run.start, agentsPath, "appended", 0, 0)),
               !.returned = TRUE]

\* optimizeTokens(workspacePath, args)
OptimizeTokens(run) == EnablePersistentMode(CompressWorkspaceFiles(run))

\* disablePersistentMode(workspacePath)
DisablePersistentMode(run) ==
    LET agentsPath == JoinPath("AGENTS.md")
        content == run.dir["AGENTS.md"]
        markerIndex == IndexOf(content, PersistentMarker)
        before == TrimEnd(SubSeq(content, 1, markerIndex - 1))
    IN IF run.threw THEN run
       ELSE IF ~ExistsSync(run.dir, agentsPath) THEN run
       ELSE IF "AGENTS.md" \in run.noRead THEN [run EXCEPT !.threw = TRUE]
       ELSE IF markerIndex = 0 THEN run
       ELSE [run EXCEPT !.dir = WriteFileSync(@, agentsPath, before \o <<"\n">>)]

\* findBackups(workspacePath)
FindBackups(dir) ==
    LET found == SelectSeq(ReadDir(dir), LAMBDA file : StrEndsWith(file, ".backup"))
    IN [i \in DOMAIN found |-> JoinPath(found[i])]

\* fs.copyFileSync(backupPath, originalPath); fs.unlinkSync(backupPath)
RestoreBackup(run, backupPath) ==
    LET originalPath == OriginalPath(backupPath)
    IN IF run.threw THEN run
       ELSE IF Basename(backupPath) \in run.noRead THEN [run EXCEPT !.threw = TRUE]
       ELSE [run EXCEPT
               !.dir = UnlinkSync(CopyFileSync(@, backupPath, originalPath), backupPath),
               !.restored = Append(@, Basename(originalPath))]

RECURSIVE RestoreFrom(_, _, _)
\* backups.forEach(backupPath => restore), backups k..
RestoreFrom(backups, k, run) ==
    IF k > Len(backups) THEN run
    ELSE RestoreFrom(backups, k + 1, RestoreBackup(run, backups[k]))

\* target && target !== 'all' ? backups.filter(b => b.includes(target)) : backups
ToRevert(backups, target) ==
    IF target # "" /\ target # "all" THEN SelectSeq(backups, LAMBDA b : StrIncludes(b, target))
    ELSE backups

\* revertChanges(target, workspacePath); target "": no argument was given
RevertChanges(run, target) ==
    IF Len(FindBackups(run.dir)) = 0 THEN run
    ELSE IF Len(ToRevert(FindBackups(run.dir), target)) = 0 THEN run
    ELSE DisablePersistentMode(RestoreFrom(ToRevert(FindBackups(run.dir), target), 1, run))

(***************************************************************************)
(* TokenAnalyzer.analyzeWorkspace and the commands of the skill            *)
(* (analyzer.js, index.js, dashboard.js)                                   *)
(***************************************************************************)

\* the loop of analyzeWorkspace over the files discovered: a file whose read fails is
\* reported and left out
AnalyzeFiles(run, workspaceFiles) ==
    LET read == SelectSeq(workspaceFiles, LAMBDA f : f \notin run.noRead)
        failed == SelectSeq(workspaceFiles, LAMBDA f : f \in run.noRead)
    IN [run EXCEPT
          !.analysis = [i \in DOMAIN read |->
                           [filename |-> read[i],
                            tokens |-> AnalyzerEstimateTokens(run.dir[read[i]]),
                            compressionPotential |-> AssessCompressionPotential(run.dir[read[i]])]],
          !.batches = Append(@, Batch("analyzeWorkspace", workspaceFiles, read, failed))]

\* analyzeWorkspace(workspacePath)
AnalyzeWorkspace(run) == AnalyzeFiles(run, DiscoverWorkspaceFiles(run.dir, run.noRead))

\* the loop of generateCompressionPreviews over the files discovered: a file whose
\* preview fails is reported
PreviewFiles(run, workspaceFiles) ==
    LET read == SelectSeq(workspaceFiles, LAMBDA f : f \notin run.noRead)
        failed == SelectSeq(workspaceFiles, LAMBDA f : f \in run.noRead)
    IN [run EXCEPT
          !.results = [i \in DOMAIN read |->
                          [success |-> TRUE, filename |-> read[i],
                           tokensSaved |-> EstimateTokens(run.dir[read[i]])
                                           - EstimateTokens(AiCompress(run.dir[read[i]], read[i]))]],
          !.batches = Append(@, Batch("generateCompressionPreviews", workspaceFiles, read, failed))]

\* generateCompressionPreviews(workspacePath)
GenerateCompressionPreviews(run) == PreviewFiles(run, DiscoverWorkspaceFiles(run.dir, run.noRead))

\* the run whose command returns success unless an exception left it
Returned(run) == [run EXCEPT !.returned = ~run.threw]

\* a flag test that takes every call as confirmed
ConfirmFlagMutant(args) == TRUE

\* args.includes('--confirm')
ConfirmFlag(args) == "--confirm" \in Range(args)

\* data.compressionPotential > 20
WorthCompressing(data) == data.compressionPotential > 20

\* fs.writeFileSync(inputPath, result.compressed); results.push(...), after the backup
ApplyReplaceFile(run, filename, backedUp, compressed) ==
    LET inputPath == JoinPath(filename)
        originalTokens == EstimateTokens(backedUp[filename])
        compressedTokens == EstimateTokens(compressed)
    IN [run EXCEPT
          !.dir = WriteFileSync(backedUp, inputPath, compressed),
          !.writes = Append(@, WriteRecord(backedUp, run.start, inputPath, "compressed",
                                           originalTokens, compressedTokens)),
          !.results = Append(@, [success |-> TRUE, filename |-> filename,
                                 tokensSaved |-> originalTokens - compressedTokens])]

\* the body of applyCommand's loop for one entry of analysis.files
ApplyFile(run, data) ==
    IF run.threw \/ ~WorthCompressing(data) THEN run
    ELSE IF data.filename \in run.noRead THEN [run EXCEPT !.threw = TRUE]
    ELSE ApplyReplaceFile(run, data.filename,
                          CopyFileSync(run.dir, JoinPath(data.filename), BackupPath(JoinPath(data.filename))),
                          AiCompress(run.dir[data.filename], data.filename))

RECURSIVE ApplyFrom(_, _, _)
\* for (const [filename, data] of Object.entries(analysis.files)), entries k..
ApplyFrom(entries, k, run) ==
    IF k > Len(entries) THEN run
    ELSE ApplyFrom(entries, k + 1, ApplyFile(run, entries[k]))

\* the filenames of the entries the loop of applyCommand is to compress
WorthNames(entries) == [i \in DOMAIN SelectSeq(entries, WorthCompressing) |->
                           SelectSeq(entries, WorthCompressing)[i].filename]

\* applyCommand after --confirm, with the analysis made
ApplyAnalysis(analysed) ==
    Returned(LogBatch("applyCommand", analysed, WorthNames(analysed.analysis),
                      ApplyFrom(analysed.analysis, 1, analysed)))

\* applyCommand(args, workspacePath, context)
ApplyCommand(run, args) ==
    IF ~ConfirmFlag(args) THEN [run EXCEPT !.returned = FALSE]
    ELSE ApplyAnalysis(AnalyzeWorkspace(run))

\* findBackupFiles(workspacePath)
FindBackupFiles(dir) == FindBackups(dir)

\* revertCommand(args, workspacePath, context)
RevertCommand(run, args) ==
    LET target == args[1]
        backupPath == JoinPath(target \o ".backup")
        originalPath == JoinPath(target)
    IN IF Len(args) = 0 THEN [run EXCEPT !.returned = FALSE]
       ELSE IF "--list" \in Range(args) THEN [run EXCEPT !.returned = TRUE]
       ELSE IF target = "all" THEN Returned(RestoreFrom(FindBackupFiles(run.dir), 1, run))
       ELSE IF ~ExistsSync(run.dir, backupPath) THEN [run EXCEPT !.returned = FALSE]
       ELSE [run EXCEPT
               !.dir = UnlinkSync(CopyFileSync(@, backupPath, originalPath), backupPath),
               !.restored = Append(@, target),
               !.returned = TRUE]

\* fs.writeFileSync(outputPath, result.compressed) and the report of compressCommand
WriteCompressed(run, filename, compressed) ==
    [run EXCEPT
       !.dir = WriteFileSync(@, CompressedPath(JoinPath(filename)), compressed),
       !.results = Append(@, [success |-> TRUE, filename |-> filename,
                              tokensSaved |-> EstimateTokens(run.dir[filename]) - EstimateTokens(compressed)]),
       !.returned = TRUE]

\* compressCommand(args, workspacePath, context)
CompressCommand(run, args) ==
    IF Len(args) = 0 THEN [run EXCEPT !.returned = FALSE]
    ELSE IF ~ExistsSync(run.dir, JoinPath(args[1])) THEN [run EXCEPT !.returned = FALSE]
    ELSE IF args[1] \in run.noRead THEN [run EXCEPT !.threw = TRUE, !.returned = FALSE]
    ELSE WriteCompressed(run, args[1], AiCompress(run.dir[args[1]], args[1]))

\* analyzeCommand(args, workspacePath, context)
AnalyzeCommand(run) == Returned(AnalyzeWorkspace(run))

\* a save that writes to the .compressed.md path when no output path is given
SaveCompressedMutant(dir, inputPath, outputPath, compressed) ==
    WriteFileSync(dir, IF outputPath # "" THEN outputPath ELSE CompressedPath(inputPath), compressed)

\* compressFile(inputPath, outputPath): if (outputPath) fs.writeFileSync(outputPath, compressed);
\* outputPath "": null
SaveCompressed(dir, inputPath, outputPath, compressed) ==
    IF outputPath # "" THEN WriteFileSync(dir, outputPath, compressed) ELSE dir

\* this.compressor.generateCompressionPreview(inputPath): compressFile(inputPath)
GenerateCompressionPreview(run, inputPath) ==
    LET filename == Basename(inputPath)
    IN [run EXCEPT
          !.dir = SaveCompressed(@, inputPath, "", AiCompress(run.dir[filename], filename)),
          !.results = <<[success |-> TRUE, filename |-> filename,
                         tokensSaved |-> EstimateTokens(run.dir[filename])
                                         - EstimateTokens(AiCompress(run.dir[filename], filename))]>>,
          !.returned = TRUE]

\* previewCommand(args, workspacePath, context): all files, or the file args names
PreviewCommand(run, args) ==
    LET filename == IF Len(args) = 0 THEN "all" ELSE args[1]
    IN IF filename = "all" THEN Returned(GenerateCompressionPreviews(run))
       ELSE IF ~ExistsSync(run.dir, JoinPath(filename)) THEN [run EXCEPT !.returned = FALSE]
       ELSE IF filename \in run.noRead THEN [run EXCEPT !.threw = TRUE]
       ELSE GenerateCompressionPreview(run, JoinPath(filename))

\* hasBackups ? 'Actual savings' : 'Possible saving'
SavingsLabel(dir) == IF Len(FindBackups(dir)) > 0 THEN "Actual savings" ELSE "Possible saving"

\* showDashboard after the previews: this.analyzer.auditModels(workspacePath), then the
\* label.  audits: the analyzer has the method; the call throws if it has not.
ShowLabel(previewed, audits) ==
    IF previewed.threw THEN previewed
    ELSE IF ~audits THEN [previewed EXCEPT !.threw = TRUE]
    ELSE [previewed EXCEPT !.label = SavingsLabel(previewed.dir)]

\* showDashboard(workspacePath): the analysis, the previews, the model audit, the label
ShowDashboard(run, audits) == ShowLabel(PreviewOptimizations(AnalyzeWorkspace(run)), audits)

(***************************************************************************)
(* TokenAnalyzer: pricing.  Prices are in quarter dollars per million      *)
(* tokens and amounts in quarter micro-dollars, so that every product of   *)
(* the program is an integer; a product with 4.33 is rounded down to that  *)
(* unit.                                                                   *)
(***************************************************************************)

\* this.modelCosts: dollars per million tokens 15/75, 3/15 and 1.25/10
ModelCosts ==
    [m \in {"anthropic/claude-opus-4-5", "anthropic/claude-sonnet-4-20250514", "google/gemini-2.5-pro"} |->
        CASE m = "anthropic/claude-opus-4-5" -> [input |-> 60, output |-> 300]
          [] m = "anthropic/claude-sonnet-4-20250514" -> [input |-> 12, output |-> 60]
          [] m = "google/gemini-2.5-pro" -> [input |-> 5, output |-> 40]]

\* config.analysis.sessionsPerWeek
SessionsPerWeek == 7

\* config.analysis.avgApiCallsPerSession
AvgApiCallsPerSession == 20

\* x * 4.33
WeeksOfMonth(x) == (x \div 100) * 433 + ((x % 100) * 433) \div 100

\* the value null
Null == [kind |-> "null"]

\* the number n
Number(n) == [kind |-> "number", value |-> n]

\* const costs = this.modelCosts[model]; !costs
NoCosts(model) == model \notin DOMAIN ModelCosts

\* calculateMonthlySavings(tokenSavings, model)
CalculateMonthlySavings(tokenSavings, model) ==
    IF NoCosts(model) \/ tokenSavings = 0 THEN Number(0)
    ELSE Number(WeeksOfMonth(tokenSavings * AvgApiCallsPerSession * SessionsPerWeek * ModelCosts[model].input))

\* calculateMonthlyCosts(analysis, sessionsPerWeek, model), analysis.systemPromptSize given
CalculateMonthlyCosts(systemPromptSize, sessionsPerWeek, model) ==
    IF NoCosts(model) THEN Null
    ELSE LET costs == ModelCosts[model]
             systemPromptCost == systemPromptSize * 20 * costs.input
             sessionCost == 150000 * costs.input + 15000 * costs.output
             weekly == systemPromptCost * sessionsPerWeek + sessionCost * sessionsPerWeek
         IN [kind |-> "costs", systemPromptPerSession |-> systemPromptCost,
             sessionCost |-> sessionCost, weekly |-> weekly,
             monthly |-> WeeksOfMonth(weekly), model |-> model]

\* the keys of this.commands
OwnCommands ==
    {"analyze", "models", "compress", "preview", "apply", "revert", "dashboard", "templates",
     "menu", "help"}

\* names this.commands, an object literal, inherits from Object.prototype: functions, and
\* __proto__, an object
InheritedFunctions == {"toString", "valueOf", "constructor", "hasOwnProperty"}

InheritedObjects == {"__proto__"}

\* the commands handleCommand is called with
CommandNames == OwnCommands \cup InheritedFunctions \cup InheritedObjects \cup {"", "status"}

\* this.commands[command]
CommandLookup(command) ==
    CASE command \in OwnCommands -> "handler"
      [] command \in InheritedFunctions -> "function"
      [] command \in InheritedObjects -> "object"
      [] OTHER -> "undefined"

\* what helpCommand resolves to
HelpResult == [kind |-> "result", success |-> TRUE, message |-> "help"]

\* what handleCommand(command, args, context) resolves to; outcome is what the handler of an
\* own command does: it resolves to a result or throws
HandleCommand(command, outcome) ==
    CASE CommandLookup(command) = "undefined" -> HelpResult
      [] CommandLookup(command) = "object" \/ (CommandLookup(command) = "handler" /\ outcome.kind = "throw") ->
            [kind |-> "result", success |-> FALSE, message |-> "error"]
      [] CommandLookup(command) = "function" -> [kind |-> "value", of |-> command]
      [] OTHER -> outcome

\* what a command handler does
HandlerOutcomes ==
    {[kind |-> "throw"]} \cup {[kind |-> "result", success |-> ok, message |-> "report"] : ok \in BOOLEAN}

\* detectCurrentModel()
DetectCurrentModel == "anthropic/claude-opus-4-5"

\* Object.keys(this.modelCosts)
ModelKeys == <<"anthropic/claude-opus-4-5", "anthropic/claude-sonnet-4-20250514", "google/gemini-2.5-pro">>

\* the comparisons calculateModelSavings pushes for the models from place k of the keys on
RECURSIVE PushComparisons(_, _, _)
PushComparisons(systemPromptSize, currentModel, k) ==
    IF k > Len(ModelKeys) THEN <<>>
    ELSE LET model == ModelKeys[k]
             currentCosts == CalculateMonthlyCosts(systemPromptSize, SessionsPerWeek, currentModel)
             modelCosts == CalculateMonthlyCosts(systemPromptSize, SessionsPerWeek, model)
         IN (IF model # currentModel /\ modelCosts # Null /\ modelCosts.monthly < currentCosts.monthly
             THEN <<[fromModel |-> currentModel, toModel |-> model,
                     monthlySavings |-> currentCosts.monthly - modelCosts.monthly,
                     currentCost |-> currentCosts.monthly, newCost |-> modelCosts.monthly]>>
             ELSE <<>>)
            \o PushComparisons(systemPromptSize, currentModel, k + 1)

\* comparisons.sort((a, b) => b.monthlySavings - a.monthlySavings), a stable sort
RECURSIVE SortBySavings(_)
SortBySavings(comparisons) ==
    IF comparisons = <<>> THEN <<>>
    ELSE LET first == CHOOSE i \in DOMAIN comparisons :
                          /\ \A j \in DOMAIN comparisons :
                                 comparisons[j].monthlySavings <= comparisons[i].monthlySavings
                          /\ \A j \in 1..(i - 1) :
                                 comparisons[j].monthlySavings < comparisons[i].monthlySavings
         IN <<comparisons[first]>>
            \o SortBySavings(SubSeq(comparisons, 1, first - 1)
                             \o SubSeq(comparisons, first + 1, Len(comparisons)))

\* calculateModelSavings(analysis, currentModel), analysis.systemPromptSize given
CalculateModelSavings(systemPromptSize, currentModel) ==
    IF CalculateMonthlyCosts(systemPromptSize, SessionsPerWeek, currentModel) = Null THEN <<>>
    ELSE SortBySavings(PushComparisons(systemPromptSize, currentModel, 1))

\* the line modelsCommand writes for comparison: it reads comparison.toModelCost and
\* comparison.monthlySavings; a read of a field the record does not have is undefined
ComparisonLine(comparison) ==
    [model |-> comparison.toModel,
     cost |-> IF "toModelCost" \in DOMAIN comparison THEN Number(comparison.toModelCost)
              ELSE [kind |-> "undefined"],
     saving |-> Number(comparison.monthlySavings)]

\* modelsCommand(args, workspacePath, context), analysis.systemPromptSize given:
\* undefined.toFixed(2) throws a TypeError
ModelsCommand(systemPromptSize) ==
    LET modelComparisons == CalculateModelSavings(systemPromptSize, DetectCurrentModel)
        lines == [k \in DOMAIN modelComparisons |-> ComparisonLine(modelComparisons[k])]
    IN IF \E k \in DOMAIN lines : lines[k].cost.kind = "undefined" THEN [kind |-> "throw"]
       ELSE [kind |-> "result", success |-> TRUE, message |-> lines]

(***************************************************************************)
(* The compressors as objects (compressor.js).  An instance holds its /g   *)
(* patterns, and a pattern object keeps its lastIndex from one call to the *)
(* next.  A lastIndex counts atoms.                                        *)
(***************************************************************************)

\* the scan of a replace from the atom at start on, and the lastIndex the last match leaves
ScanFrom(ms, text, tpl, start) ==
    [text |-> SubSeq(text, 1, start - 1) \o ReplaceFrom(ms, text, tpl, start),
     lastIndex |-> Greatest({0} \cup {m.end - 1 : m \in ms})]

\* a replace that resumes where the pattern object's lastIndex stands and leaves it there
ReplaceGlobalMutant(re, text, tpl, lastIndex) ==
    ScanFrom(AllMatches(re, text), text, tpl, Least({lastIndex, Len(text)}) + 1)

\* text.replace(re, tpl) with the /g pattern object re whose lastIndex is lastIndex: the
\* scan sets lastIndex to 0 before its first exec, and the exec that finds no further
\* match leaves it at 0
ReplaceGlobal(re, text, tpl, lastIndex) == [text |-> ReplaceAll(re, text, tpl), lastIndex |-> 0]

RECURSIVE ApplyHeld(_, _, _, _)
RECURSIVE ApplyHeldStep(_, _, _, _)
\* rules.forEach(rule => text = text.replace(rule.pattern, rule.replacement)), rules k.., with
\* the pattern objects the instance holds, rule k at lastIndexes[k]
ApplyHeld(rules, k, text, lastIndexes) ==
    IF k > Len(rules) THEN [text |-> text, lastIndex |-> lastIndexes]
    ELSE ApplyHeldStep(rules, k, lastIndexes,
                       ReplaceGlobal(rules[k].pattern, text, rules[k].replacement, lastIndexes[k]))

\* the rest of the loop after the replace of rule k has left replaced
ApplyHeldStep(rules, k, lastIndexes, replaced) ==
    ApplyHeld(rules, k + 1, replaced.text, [lastIndexes EXCEPT ![k] = replaced.lastIndex])

\* the rest of AICompressor.compressFile after the loop over this.compressionPatterns
AiAfterHeld(held, filename) ==
    [text |-> ConvertToAINotation(ApplyPatterns(FileRules(filename), 1, held.text), filename),
     lastIndex |-> held.lastIndex]

\* the text AICompressor.compressFile computes on the instance whose patterns stand at
\* lastIndexes, and where it leaves them
AiCompressOn(lastIndexes, content, filename) ==
    AiAfterHeld(ApplyHeld(CompressionPatterns, 1, content, lastIndexes), filename)

\* Object.values(this.patterns): workflow, conditional, bulletList, headers
WsPatterns == SubSeq(WsGeneralRules, 1, 4)

\* the rest of applyGeneralCompression after the loop over this.patterns
WsAfterHeld(held) ==
    [text |-> ApplyPatterns(WsGeneralRules, Len(WsPatterns) + 1, held.text),
     lastIndex |-> held.lastIndex]

\* compressContent(content, filename) on the instance whose patterns stand at lastIndexes
WsCompressOn(lastIndexes, content, filename) ==
    IF filename = "MEMORY.md" THEN [text |-> WsCompressMemoryFile(content), lastIndex |-> lastIndexes]
    ELSE IF filename = "USER.md" THEN [text |-> WsCompressUserFile(content), lastIndex |-> lastIndexes]
    ELSE IF filename = "AGENTS.md" THEN [text |-> WsCompressAgentsFile(content), lastIndex |-> lastIndexes]
    ELSE WsAfterHeld(ApplyHeld(WsPatterns, 1, content, lastIndexes))

\* the pattern objects of a new instance
NewLastIndexes(rules) == [k \in 1..Len(rules) |-> 0]

\* new AICompressor(), new WorkspaceCompressor()
NewInstances == [ai |-> NewLastIndexes(CompressionPatterns), ws |-> NewLastIndexes(WsPatterns)]

\* the value NaN
NotANumber == [kind |-> "NaN"]

\* the value -Infinity
MinusInfinity == [kind |-> "-Infinity"]

\* Math.round(((originalTokens - compressedTokens) / originalTokens) * 100)
SavingsPercent(originalTokens, compressedTokens) ==
    IF originalTokens = 0 THEN (IF compressedTokens = 0 THEN NotANumber ELSE MinusInfinity)
    ELSE Number((200 * (originalTokens - compressedTokens) + originalTokens) \div (2 * originalTokens))

\* what AICompressor.compressFile returns when it has computed compressed
CompressFileResult(originalContent, compressed) ==
    [original |-> originalContent, compressed |-> compressed,
     originalTokens |-> EstimateTokens(originalContent),
     compressedTokens |-> EstimateTokens(compressed),
     savings |-> SavingsPercent(EstimateTokens(originalContent), EstimateTokens(compressed))]

\* the rule sets applyCompressionRules and convertToAINotation run for filename, in order
AiRuleSets(filename) ==
    <<"generic">>
    \o (IF StrIncludes(filename, "USER.md") THEN <<"USER.md">>
        ELSE IF StrIncludes(filename, "MEMORY.md") THEN <<"MEMORY.md">>
        ELSE IF StrIncludes(filename, "AGENTS.md") THEN <<"AGENTS.md">>
        ELSE <<>>)
    \o <<"generic">>

\* the rule set compressContent runs for filename
WsRuleSets(filename) ==
    IF filename = "MEMORY.md" THEN <<"MEMORY.md">>
    ELSE IF filename = "USER.md" THEN <<"USER.md">>
    ELSE IF filename = "AGENTS.md" THEN <<"AGENTS.md">>
    ELSE <<"generic">>

\* the patterns of the file-specific function of WorkspaceCompressor for filename:
\* compressMemoryFile and compressUserFile have none
WsFilePatterns(filename) == IF filename = "AGENTS.md" THEN WsAgentsRules ELSE <<>>

\* the file-specific function of AICompressor for filename, on content
AiFileSpecific(content, filename) == ApplyPatterns(FileRules(filename), 1, content)

\* the first rule with a condition that runs to the last comma of its line
CompressionRuleMutant(k) ==
    IF k = 1
    THEN [CompressionPatterns[1] EXCEPT
            !.pattern = <<LitI("When"), Cls("ws", 1, 0, FALSE, 0), Cls("dot", 1, 0, FALSE, 1),
                          Lit(","), Cls("ws", 0, 0, FALSE, 0), Cls("dot", 1, 0, FALSE, 2)>>]
    ELSE CompressionPatterns[k]

\* this.compressionPatterns[k - 1]
CompressionRule(k) == CompressionPatterns[k]

\* compressed.replace(rule.pattern, rule.replacement) for rule k of this.compressionPatterns
ApplyRule(k, text) == ReplaceAll(CompressionRule(k).pattern, text, CompressionRule(k).replacement)

\* re matches somewhere in text
Matches(re, text) == AllMatches(re, text) # {}

\* one of the patterns of rules matches somewhere in text
MatchesAny(rules, text) == \E k \in DOMAIN rules : Matches(rules[k].pattern, text)

(***************************************************************************)
(* The state: the workspace on disk, the files whose read fails, the last  *)
(* command with what it reported, and the last pricing call.  trace and    *)
(* orig remember the history: which commands ran since the workspace was   *)
(* fresh, and the workspace as the first optimize run found it; commands   *)
(* counts the commands of the session.  console is the global console.log  *)
(* with the text dashboards that capture it.                               *)
(***************************************************************************)

VARIABLES disk, unreadable, last, trace, orig, commands, quote, call, earlier, lastIndex, console

vars == <<disk, unreadable, last, trace, orig, commands, quote, call, earlier, lastIndex, console>>

\* the state of the library calls: the last call, the first compression, the instances
\* and the console
lib == <<call, earlier, lastIndex, console>>

\* the number of invocations of dashboardCommand that overlap
MaxInvocations == 3

\* no library call yet
NoCall ==
    [fn |-> "none", impl |-> "", content |-> <<>>, filename |-> "", pass |-> 0,
     source |-> <<>>, rule |-> 0, ruleSets |-> <<>>, result |-> Null]

\* no compression on the instances yet
NoEarlier == [impl |-> "", content |-> <<>>, filename |-> "", result |-> <<>>, between |-> FALSE]

\* the overlapping invocations of dashboardCommand
Invocations == 1..MaxInvocations

\* the function console.log is before the first invocation
OriginalLog == [kind |-> "original"]

\* the closure invocation i puts in the place of console.log: (...args) => { output += ... }
Capture(i) == [kind |-> "capture", of |-> i]

\* console.log is the original function and no dashboard runs: log is the function
\* console.log is, pc an invocation's position, saved its originalConsoleLog, output its
\* captured text, and terminal what the original function has printed
ConsoleIdle ==
    [log |-> OriginalLog,
     pc |-> [i \in Invocations |-> "idle"],
     saved |-> [i \in Invocations |-> OriginalLog],
     output |-> [i \in Invocations |-> <<>>],
     terminal |-> <<>>]

\* no library call made, the instances as constructed
LibIdle ==
    call = NoCall /\ earlier = NoEarlier /\ lastIndex = NewInstances /\ console = ConsoleIdle

\* the number of commands of a session
MaxCommands == 3

AgentsWorkflow ==
    <<"#", " ", "Agents", "\n", "When", " ", "you", " ", "receive", " ", "a poll", ",", " ",
      "vote", ":", "\n">>

AgentsRules == <<"#", " ", "Agents", "\n", "-", " ", "Be kind", ".", "\n">>

SoulVerbose ==
    <<"#", " ", "Soul", "\n", "\n", "\n", "\n", "\n", "This", " ", "is", " ", "it", ".", "\n">>

SoulTerse == <<"-", " ", "Be kind", ".", "\n">>

AgentsContents == {AgentsWorkflow, AgentsRules}

SoulContents == {SoulVerbose, SoulTerse}

NoFiles == [n \in {} |-> <<>>]

\* the workspaces a session starts from: no backups, persistent mode off
Workspaces ==
    {[n \in {"AGENTS.md", "SOUL.md"} |-> IF n = "AGENTS.md" THEN a ELSE s] :
        a \in AgentsContents, s \in SoulContents}
    \cup {[n \in {"SOUL.md"} |-> s] : s \in SoulContents}

\* process.argv[3] of "optimizer.js revert": "" when absent
RevertTargets == {"", "all", "SOUL.md", "AGENTS.md"}

RevertArgs == {<<>>, <<"all">>, <<"SOUL.md">>, <<"AGENTS.md">>, <<"--list">>}

ApplyArgs == {<<>>, <<"--confirm">>}

PreviewArgs == {<<>>, <<"all">>, <<"SOUL.md">>, <<"USER.md">>}

CompressArgs == {<<>>, <<"SOUL.md">>, <<"SOUL.md.backup">>, <<"USER.md">>}

NoQuote == [fn |-> "none", model |-> "", arg |-> 0, result |-> Null]

\* what the state keeps of a command's run
Result(cmd, args, run) ==
    [cmd |-> cmd, args |-> args, returned |-> run.returned, threw |-> run.threw,
     writes |-> run.writes, results |-> run.results, analysis |-> run.analysis,
     batches |-> run.batches, restored |-> run.restored, label |-> run.label]

NoCommand == Result("none", <<>>, NewRun(NoFiles, {}))

Init ==
    /\ disk \in Workspaces
    /\ unreadable = {}
    /\ last = NoCommand
    /\ trace = "fresh"
    /\ orig = NoFiles
    /\ commands = 0
    /\ quote = NoQuote
    /\ LibIdle

\* the history after an optimize run: "tokens" while only optimizeTokens has run
AfterOptimize(cmd) ==
    /\ trace' = CASE trace \in {"fresh", "tokens"} /\ cmd = "tokens" -> "tokens"
                  [] trace \in {"fresh", "tokens", "optimized"} -> "optimized"
                  [] OTHER -> "other"
    /\ orig' = IF trace = "fresh" THEN disk
               ELSE IF trace \in {"tokens", "optimized"} THEN orig ELSE NoFiles

\* the history after a revert of everything
AfterRevertAll ==
    /\ trace' = IF trace \in {"tokens", "optimized"} THEN "reverted" ELSE "other"
    /\ orig' = IF trace \in {"tokens", "optimized"} THEN orig ELSE NoFiles

\* the history after any other command that may change the workspace
AfterOther == trace' = "other" /\ orig' = NoFiles

\* one more command of the session
OneMore == commands < MaxCommands /\ commands' = commands + 1

\* node optimizer.js tokens
Tokens ==
    /\ OneMore
    /\ \E run \in {OptimizeTokens(NewRun(disk, unreadable))} :
        /\ disk' = run.dir
        /\ last' = Result("tokens", <<>>, run)
        /\ AfterOptimize("tokens")
        /\ UNCHANGED <<unreadable, quote, lib>>

\* node optimizer.js revert [target]
Revert ==
    \E target \in RevertTargets :
        /\ OneMore
        /\ \E run \in {RevertChanges(NewRun(disk, unreadable), target)} :
            /\ disk' = run.dir
            /\ last' = Result("revert", <<target>>, run)
            /\ IF target \in {"", "all"} THEN AfterRevertAll ELSE AfterOther
            /\ UNCHANGED <<unreadable, quote, lib>>

\* node optimizer.js dashboard; the analyzer in use may lack auditModels, as the one of
\* analyzer.js does
Dashboard ==
    \E audits \in BOOLEAN :
        /\ OneMore
        /\ \E run \in {ShowDashboard(NewRun(disk, unreadable), audits)} :
            /\ disk' = run.dir
            /\ last' = Result("dashboard", <<>>, run)
            /\ UNCHANGED <<unreadable, trace, orig, quote, lib>>

\* /optimize apply [--confirm]
Apply ==
    \E args \in ApplyArgs :
        /\ OneMore
        /\ \E run \in {ApplyCommand(NewRun(disk, unreadable), args)} :
            /\ disk' = run.dir
            /\ last' = Result("apply", args, run)
            /\ IF ConfirmFlag(args) THEN AfterOptimize("apply") ELSE UNCHANGED <<trace, orig>>
            /\ UNCHANGED <<unreadable, quote, lib>>

\* /optimize revert [all | filename | --list]
SkillRevert ==
    \E args \in RevertArgs :
        /\ OneMore
        /\ \E run \in {RevertCommand(NewRun(disk, unreadable), args)} :
            /\ disk' = run.dir
            /\ last' = Result("revertCommand", args, run)
            /\ IF args = <<"all">> THEN AfterRevertAll
               ELSE IF args \in {<<>>, <<"--list">>} THEN UNCHANGED <<trace, orig>>
               ELSE AfterOther
            /\ UNCHANGED <<unreadable, quote, lib>>

\* /optimize compress FILENAME
Compress ==
    \E args \in CompressArgs :
        /\ OneMore
        /\ \E run \in {CompressCommand(NewRun(disk, unreadable), args)} :
            /\ disk' = run.dir
            /\ last' = Result("compress", args, run)
            /\ AfterOther
            /\ UNCHANGED <<unreadable, quote, lib>>

\* /optimize analyze
Analyze ==
    /\ OneMore
    /\ \E run \in {AnalyzeCommand(NewRun(disk, unreadable))} :
        /\ last' = Result("analyze", <<>>, run)
        /\ UNCHANGED <<disk, unreadable, trace, orig, quote, lib>>

\* /optimize preview [file|all]
Preview ==
    \E args \in PreviewArgs :
        /\ OneMore
        /\ \E run \in {PreviewCommand(NewRun(disk, unreadable), args)} :
            /\ disk' = run.dir
            /\ last' = Result("preview", args, run)
            /\ UNCHANGED <<unreadable, trace, orig, quote, lib>>

Next == Tokens \/ Revert \/ Dashboard \/ Apply \/ SkillRevert \/ Compress \/ Analyze \/ Preview

Spec == Init /\ [][Next]_vars

(***************************************************************************)
(* The same commands in a workspace where the read of one file fails.      *)
(***************************************************************************)

InitIO ==
    /\ disk \in Workspaces
    /\ unreadable \in {{f} : f \in DOMAIN disk}
    /\ last = NoCommand
    /\ trace = "fresh"
    /\ orig = NoFiles
    /\ commands = 0
    /\ quote = NoQuote
    /\ LibIdle

SpecIO == InitIO /\ [][Next]_vars

(***************************************************************************)
(* The pricing functions, called with every model and size in the bounds.  *)
(***************************************************************************)

\* the model ids of a pricing call: the three of the table and one that is not in it
Models == DOMAIN ModelCosts \cup {"openai/gpt-4o"}

MaxTokenSavings == 12

MaxPromptSize == 5

MaxSessionsPerWeek == 3

InitPricing ==
    /\ disk = NoFiles
    /\ unreadable = {}
    /\ last = NoCommand
    /\ trace = "fresh"
    /\ orig = NoFiles
    /\ commands = 0
    /\ quote = NoQuote
    /\ LibIdle

MonthlySavings ==
    \E model \in Models, tokenSavings \in 0..MaxTokenSavings :
        /\ quote' = [fn |-> "calculateMonthlySavings", model |-> model, arg |-> tokenSavings,
                     result |-> CalculateMonthlySavings(tokenSavings, model)]
        /\ UNCHANGED <<disk, unreadable, last, trace, orig, commands, lib>>

MonthlyCosts ==
    \E model \in Models, size \in 0..MaxPromptSize, sessions \in 1..MaxSessionsPerWeek :
        /\ quote' = [fn |-> "calculateMonthlyCosts", model |-> model, arg |-> size,
                     result |-> CalculateMonthlyCosts(size, sessions, model)]
        /\ UNCHANGED <<disk, unreadable, last, trace, orig, commands, lib>>

\* /optimize models in a workspace with a system prompt of size tokens
ModelsCall ==
    \E size \in 0..MaxPromptSize :
        /\ quote' = [fn |-> "modelsCommand", model |-> DetectCurrentModel, arg |-> size,
                     result |-> HandleCommand("models", ModelsCommand(size))]
        /\ UNCHANGED <<disk, unreadable, last, trace, orig, commands, lib>>

NextPricing == MonthlySavings \/ MonthlyCosts \/ ModelsCall

SpecPricing == InitPricing /\ [][NextPricing]_vars

(***************************************************************************)
(* Persistent mode switched on and off directly, in a workspace that holds *)
(* AGENTS.md only; in between, lines may be appended to the file.          *)
(***************************************************************************)

AgentsNoNewline == <<"#", " ", "Agents">>

AgentsBlankEnd == <<"Be kind", ".", "\n", "\n">>

\* what AGENTS.md holds at the start
PersistentDocs == {AgentsRules, AgentsWorkflow, AgentsNoNewline, AgentsBlankEnd, <<>>}

\* the lines appended to AGENTS.md
Notes == {<<"Reply", " ", "briefly", ".", "\n">>, <<"\n", "#", "#", " ", "Tools", "\n">>}

InitPersistent ==
    /\ disk \in {[n \in {"AGENTS.md"} |-> c] : c \in PersistentDocs}
    /\ unreadable = {}
    /\ last = NoCommand
    /\ trace = "fresh"
    /\ orig = NoFiles
    /\ commands = 0
    /\ quote = NoQuote
    /\ LibIdle

\* enablePersistentMode(workspacePath); orig keeps the workspace as it was before
EnableCall ==
    /\ OneMore
    /\ \E run \in {EnablePersistentMode(NewRun(disk, unreadable))} :
        /\ disk' = run.dir
        /\ last' = Result("enablePersistentMode", <<>>, run)
        /\ trace' = IF run.returned THEN "enabled" ELSE "other"
        /\ orig' = IF run.returned THEN disk ELSE NoFiles
        /\ UNCHANGED <<unreadable, quote, lib>>

\* disablePersistentMode(workspacePath)
DisableCall ==
    /\ OneMore
    /\ \E run \in {DisablePersistentMode(NewRun(disk, unreadable))} :
        /\ disk' = run.dir
        /\ last' = Result("disablePersistentMode", <<>>, run)
        /\ trace' = IF trace = "enabled" THEN "disabled" ELSE "other"
        /\ UNCHANGED <<unreadable, orig, quote, lib>>

\* a writer of the workspace appends a note to AGENTS.md
AppendNote ==
    \E note \in Notes :
        /\ OneMore
        /\ disk' = WriteFileSync(disk, JoinPath("AGENTS.md"), disk["AGENTS.md"] \o note)
        /\ last' = Result("append", note, NewRun(disk, unreadable))
        /\ trace' = "other"
        /\ UNCHANGED <<unreadable, orig, quote, lib>>

NextPersistent == EnableCall \/ DisableCall \/ AppendNote

SpecPersistent == InitPersistent /\ [][NextPersistent]_vars

(***************************************************************************)
(* The functions on text, called with every document of a small library.   *)
(***************************************************************************)

RECURSIVE Repeat(_, _)
\* String.prototype.repeat
Repeat(text, n) == IF n = 0 THEN <<>> ELSE text \o Repeat(text, n - 1)

\* the number of bullet lines of the longest list
MaxBullets == 21

\* the number of filler words of the wordiest text
MaxFillers == 34

EmptyText == <<>>

PlainNote == <<"Be kind", ".", "\n">>

\* a value of 100 characters
LongValue ==
    "0123456789012345678901234567890123456789012345678901234567890123456789012345678901234567890123456789"

KeyValueNote == <<"Note", ":", " ", LongValue, "\n">>

BulletLines == Repeat(<<"-", " ", "x", "\n">>, MaxBullets)

FillerRun == Repeat(<<"very", " ">>, MaxFillers)

\* the documents the compressors are given
TwoHeaders == <<"#", " ", "Top", "\n", "#", "#", " ", "Sub", "\n", "Text", ".", "\n">>

TwoBlankLines == <<"One", ".", "\n", "\n", "\n", "Two", ".", "\n">>

CompressDocs ==
    {EmptyText, PlainNote, KeyValueNote, SoulVerbose, AgentsWorkflow, AgentsRules, TwoHeaders,
     TwoBlankLines}

\* the documents that are measured
Documents == CompressDocs \cup {BulletLines, FillerRun, SoulTerse}

\* the names with a file-specific function
KnownNames == {"MEMORY.md", "USER.md", "AGENTS.md"}

\* the names a document is compressed under
FileNames == KnownNames \cup {"SOUL.md", "MY_USER.md"}

Implementations == {"TokenAnalyzer", "AICompressor", "WorkspaceCompressor"}

Compressors == {"AICompressor", "WorkspaceCompressor"}

InitText ==
    /\ disk = NoFiles
    /\ unreadable = {}
    /\ last = NoCommand
    /\ trace = "fresh"
    /\ orig = NoFiles
    /\ commands = 0
    /\ quote = NoQuote
    /\ LibIdle

\* impl.estimateTokens(text)
EstimateWith(impl, text) ==
    CASE impl = "TokenAnalyzer" -> AnalyzerEstimateTokens(text)
      [] impl = "AICompressor" -> EstimateTokens(text)
      [] impl = "WorkspaceCompressor" -> WsEstimateTokens(text)

EstimateTokensCall ==
    \E impl \in Implementations, text \in Documents :
        /\ call' = [NoCall EXCEPT !.fn = "estimateTokens", !.impl = impl, !.content = text,
                                  !.result = EstimateWith(impl, text)]
        /\ UNCHANGED <<disk, unreadable, last, trace, orig, commands, quote, earlier, lastIndex,
                       console>>

AssessCall ==
    \E text \in Documents :
        /\ call' = [NoCall EXCEPT !.fn = "assessCompressionPotential", !.impl = "TokenAnalyzer",
                                  !.content = text, !.result = AssessCompressionPotential(text)]
        /\ UNCHANGED <<disk, unreadable, last, trace, orig, commands, quote, earlier, lastIndex,
                       console>>

\* the file-specific function of impl for filename, on content
FileSpecific(impl, content, filename) ==
    IF impl = "AICompressor" THEN AiFileSpecific(content, filename)
    ELSE WsCompressContent(content, filename)

\* compressUserFile, compressMemoryFile or compressAgentsFile of one of the compressors
FileSpecificCall ==
    \E impl \in Compressors, filename \in KnownNames, content \in CompressDocs :
        /\ call' = [NoCall EXCEPT !.fn = "fileSpecific", !.impl = impl, !.content = content,
                                  !.filename = filename,
                                  !.result = FileSpecific(impl, content, filename)]
        /\ UNCHANGED <<disk, unreadable, last, trace, orig, commands, quote, earlier, lastIndex,
                       console>>

\* AICompressor.compressFile on a file named filename that holds content
AiCompressFileCall(content, filename, pass, source) ==
    [fn |-> "compress", impl |-> "AICompressor", content |-> content, filename |-> filename,
     pass |-> pass, source |-> source, rule |-> 0, ruleSets |-> AiRuleSets(filename),
     result |-> CompressFileResult(content, AiCompress(content, filename))]

\* WorkspaceCompressor.compressContent(content, filename)
WsCompressContentCall(content, filename, pass, source) ==
    [fn |-> "compress", impl |-> "WorkspaceCompressor", content |-> content,
     filename |-> filename, pass |-> pass, source |-> source, rule |-> 0,
     ruleSets |-> WsRuleSets(filename),
     result |-> [compressed |-> WsCompressContent(content, filename)]]

\* the compression of content under filename by impl; source is the document the first
\* pass was given
CompressCall(impl, content, filename, pass, source) ==
    IF impl = "AICompressor" THEN AiCompressFileCall(content, filename, pass, source)
    ELSE WsCompressContentCall(content, filename, pass, source)

\* a document is compressed
CompressDocument ==
    \E impl \in Compressors, filename \in FileNames, content \in CompressDocs :
        /\ call' = CompressCall(impl, content, filename, 1, content)
        /\ UNCHANGED <<disk, unreadable, last, trace, orig, commands, quote, earlier, lastIndex,
                       console>>

\* the text the last compression returned is compressed again, under the same name
CompressAgain ==
    /\ call.fn = "compress"
    /\ call.pass = 1
    /\ call' = CompressCall(call.impl, call.result.compressed, call.filename, 2, call.source)
    /\ UNCHANGED <<disk, unreadable, last, trace, orig, commands, quote, earlier, lastIndex,
                       console>>

WhenReply == <<"When", " ", "you get a message", ",", " ", "reply", ".">>

WhenTwoCommas ==
    <<"Note", ".", "\n", "when", " ", "asked", ",", " ", "think", ",", " ", "then answer", ".",
      "\n", "Done", ".", "\n">>

FillerSentence == <<"This", " ", "is", " ", "really", " ", "very", " ", "important", ".">>

FillerBeforeStop == <<"It", " ", "works", " ", "really", ".", "\n">>

\* the texts a single rule is applied to
RuleDocs == {WhenReply, WhenTwoCommas, FillerSentence, FillerBeforeStop, PlainNote, AgentsWorkflow}

\* one rule of this.compressionPatterns is applied to a text
RuleCall ==
    \E k \in DOMAIN CompressionPatterns, text \in RuleDocs :
        /\ call' = [NoCall EXCEPT !.fn = "rule", !.impl = "AICompressor", !.content = text,
                                  !.rule = k, !.result = ApplyRule(k, text)]
        /\ UNCHANGED <<disk, unreadable, last, trace, orig, commands, quote, earlier, lastIndex,
                       console>>

\* skill.handleCommand(command, args, context)
HandleCommandCall ==
    \E command \in CommandNames, outcome \in HandlerOutcomes :
        /\ call' = [NoCall EXCEPT !.fn = "handleCommand", !.filename = command,
                                  !.source = <<outcome>>,
                                  !.result = HandleCommand(command, outcome)]
        /\ UNCHANGED <<disk, unreadable, last, trace, orig, commands, quote, earlier, lastIndex,
                       console>>

NextText ==
    \/ HandleCommandCall
    \/ EstimateTokensCall
    \/ AssessCall
    \/ FileSpecificCall
    \/ CompressDocument
    \/ CompressAgain
    \/ RuleCall

SpecText == InitText /\ [][NextText]_vars

(***************************************************************************)
(* One AICompressor and one WorkspaceCompressor, each compressing one      *)
(* document after the other.                                               *)
(***************************************************************************)

\* the number of compressions that are told apart by their place in the session
MaxPass == 3

\* the documents and names given to the instances
InstanceDocs == {AgentsWorkflow, AgentsRules, SoulVerbose}

InstanceNames == {"SOUL.md", "AGENTS.md"}

\* impl's compression of content under filename, on the instance as it stands
CompressOn(impl, lastIndexes, content, filename) ==
    IF impl = "AICompressor" THEN AiCompressOn(lastIndexes.ai, content, filename)
    ELSE WsCompressOn(lastIndexes.ws, content, filename)

\* the instances after impl's patterns were left at lastIndexes
Held(impl, instances, lastIndexes) ==
    IF impl = "AICompressor" THEN [instances EXCEPT !.ai = lastIndexes]
    ELSE [instances EXCEPT !.ws = lastIndexes]

\* the first compression of the session, and whether another input came after it
Remember(first, impl, content, filename, text) ==
    IF first = NoEarlier
    THEN [impl |-> impl, content |-> content, filename |-> filename, result |-> text,
          between |-> FALSE]
    ELSE [first EXCEPT !.between = @ \/ <<impl, content, filename>> # <<first.impl, first.content, first.filename>>]

\* impl compresses content under filename on its instance
InstanceCompress(impl) ==
    \E filename \in InstanceNames, content \in InstanceDocs :
        \E done \in {CompressOn(impl, lastIndex, content, filename)} :
            /\ call' = [NoCall EXCEPT !.fn = "compress", !.impl = impl, !.content = content,
                                      !.filename = filename,
                                      !.pass = Least({call.pass + 1, MaxPass}),
                                      !.result = [compressed |-> done.text]]
            /\ lastIndex' = Held(impl, lastIndex, done.lastIndex)
            /\ earlier' = Remember(earlier, impl, content, filename, done.text)
            /\ UNCHANGED <<disk, unreadable, last, trace, orig, commands, quote, console>>

AiInstanceCompress == InstanceCompress("AICompressor")

WsInstanceCompress == InstanceCompress("WorkspaceCompressor")

NextInstance == AiInstanceCompress \/ WsInstanceCompress

SpecInstance == InitText /\ [][NextInstance]_vars

(***************************************************************************)
(* The text dashboard of the skill (index.js), called several times before *)
(* the first call has finished.  An invocation runs in three parts, each   *)
(* of them without interruption: up to the await of generateFullReport,    *)
(* whose own first part runs up to its await of analyzeWorkspace; the rest *)
(* of generateFullReport; and the rest of dashboardCommand.                *)
(***************************************************************************)

\* console.log(line), with console.log as it is now: the original function prints, the
\* closure of an invocation adds the line to the output of that invocation
ConsoleLog(c, line) ==
    IF c.log = OriginalLog THEN [c EXCEPT !.terminal = Append(@, line)]
    ELSE [c EXCEPT !.output[c.log.of] = Append(@, line)]

\* dashboardCommand, text format, up to the await: console.log is saved and replaced, then
\* generateFullReport logs its first line and analyzeWorkspace, which awaits nothing, logs
\* the analysis
BeginDashboard(i) ==
    /\ console.pc[i] = "idle"
    /\ console' = ConsoleLog(ConsoleLog([console EXCEPT !.saved[i] = console.log,
                                                        !.log = Capture(i),
                                                        !.pc[i] = "awaiting"],
                                       <<i, "generating">>),
                            <<i, "analysis">>)
    /\ UNCHANGED <<disk, unreadable, last, trace, orig, commands, quote, call, earlier, lastIndex>>

\* generateFullReport after its await: the previews, then displayDashboard logs the report
ReportDashboard(i) ==
    /\ console.pc[i] = "awaiting"
    /\ console' = ConsoleLog([console EXCEPT !.pc[i] = "reported"], <<i, "report">>)
    /\ UNCHANGED <<disk, unreadable, last, trace, orig, commands, quote, call, earlier, lastIndex>>

\* dashboardCommand after the await: console.log = originalConsoleLog; return
FinishDashboard(i) ==
    /\ console.pc[i] = "reported"
    /\ console' = [console EXCEPT !.log = console.saved[i], !.pc[i] = "done"]
    /\ UNCHANGED <<disk, unreadable, last, trace, orig, commands, quote, call, earlier, lastIndex>>

Begin == \E i \in Invocations : BeginDashboard(i)

Report == \E i \in Invocations : ReportDashboard(i)

Finish == \E i \in Invocations : FinishDashboard(i)

NextDashboard == Begin \/ Report \/ Finish

SpecDashboard == InitPricing /\ [][NextDashboard]_vars

(***************************************************************************)
(* Properties                                                              *)
(***************************************************************************)

\* every name on disk is one the directory listing knows
NamesKnown == DOMAIN disk \subseteq Range(DirOrder)

\* C1: after one or more optimize runs (tokens, apply --confirm) followed by a revert of
\* everything, every file of the workspace has the content it had before the first
\* optimize run.
C1_RevertAllRestoresOriginals ==
    trace = "reverted" => \A f \in DOMAIN orig : f \in DOMAIN disk /\ disk[f] = orig[f]

\* C2: whenever an optimize run (tokens, apply) writes to a workspace file F, F.backup
\* exists and holds the content F had before that run changed it.
C2_BackupBeforeEveryWrite ==
    last.cmd \in {"tokens", "apply"} =>
        \A i \in DOMAIN last.writes :
            /\ last.writes[i].before # <<>>
            /\ last.writes[i].backup = last.writes[i].before

\* a tokens run that wrote the compressed AGENTS.md and then appended the section to it
C2_Witness ==
    /\ last.cmd = "tokens"
    /\ \E i \in DOMAIN last.writes :
           last.writes[i].kind = "compressed" /\ last.writes[i].file = "AGENTS.md"
    /\ \E i \in DOMAIN last.writes :
           last.writes[i].kind = "appended" /\ last.writes[i].file = "AGENTS.md"

\* C3: a file is overwritten with the compressed text only if the compressed text has
\* strictly fewer tokens than the original, in compressFile and in applyCommand.
C3_PersistOnlyIfSmaller ==
    last.cmd \in {"tokens", "apply"} =>
        \A i \in DOMAIN last.writes :
            last.writes[i].kind = "compressed" =>
                last.writes[i].compressedTokens < last.writes[i].originalTokens

\* C4: once revertChanges has returned, whatever the workspace and the target, AGENTS.md
\* (if it exists) does not contain the persistent-mode section.
C4_RevertDisablesPersistentMode ==
    last.cmd = "revert" /\ ~last.threw /\ "AGENTS.md" \in DOMAIN disk =>
        ~Includes(disk["AGENTS.md"], PersistentMarker)

\* C5: from an AGENTS.md that exists and has no marker, after one or more optimizeTokens
\* runs AGENTS.md contains the persistent-mode marker exactly once.
C5_MarkerExactlyOnce ==
    trace = "tokens" /\ "AGENTS.md" \in DOMAIN orig =>
        /\ "AGENTS.md" \in DOMAIN disk
        /\ Cardinality(Occurrences(disk["AGENTS.md"], PersistentMarker)) = 1

\* a second optimizeTokens run, which found the marker in AGENTS.md and did not append
C5_Witness ==
    /\ trace = "tokens"
    /\ "AGENTS.md" \in DOMAIN orig
    /\ last.cmd = "tokens"
    /\ ~last.returned
    /\ commands >= 2

\* C6: a revert of one named file that restores it leaves the file equal to its backup,
\* removes that backup and changes no other file and no other backup.
C6_RevertFileOnly ==
    [][(/\ last'.cmd \in {"revert", "revertCommand"}
        /\ last'.args \in {<<"SOUL.md">>, <<"AGENTS.md">>}
        /\ last'.restored # <<>>)
       => /\ last'.args[1] \in DOMAIN disk'
          /\ (last'.args[1] \o ".backup") \in DOMAIN disk
          /\ disk'[last'.args[1]] = disk[last'.args[1] \o ".backup"]
          /\ (last'.args[1] \o ".backup") \notin DOMAIN disk'
          /\ \A n \in (DOMAIN disk \cup DOMAIN disk') \ {last'.args[1], last'.args[1] \o ".backup"} :
                 n \in DOMAIN disk /\ n \in DOMAIN disk' /\ disk'[n] = disk[n]]_vars

\* C7: apply without --confirm returns success = false and creates, modifies and deletes
\* no file; files are replaced only when --confirm is among the arguments.
C7_ApplyNeedsConfirm ==
    [][last'.cmd = "apply"
       => /\ "--confirm" \notin Range(last'.args) => disk' = disk /\ ~last'.returned
          /\ disk' # disk => "--confirm" \in Range(last'.args)]_vars

\* apply without --confirm on a workspace whose SOUL.md apply --confirm replaces
C7_Witness ==
    /\ last.cmd = "apply"
    /\ last.args = <<>>
    /\ ~last.returned
    /\ "SOUL.md" \in DOMAIN disk
    /\ disk["SOUL.md"] = SoulVerbose

\* C8: compress FILENAME, for every existing FILENAME, leaves FILENAME as it was.
C8_CompressKeepsInput ==
    [][last'.cmd = "compress" /\ last'.returned
       => /\ last'.args[1] \in DOMAIN disk'
          /\ disk'[last'.args[1]] = disk[last'.args[1]]]_vars

\* C9: in every loop over the discovered files, each file is handled or its failure
\* is reported: a failure on one file does not keep the loop from the files after it.
C9_BatchNeverAborts ==
    \A i \in DOMAIN last.batches :
        Range(last.batches[i].discovered)
            \subseteq Range(last.batches[i].processed) \cup Range(last.batches[i].reported)

\* C10: calculateMonthlyCosts and calculateMonthlySavings return null for a model id
\* that is not in the pricing table.
C10_UnknownModelIsNull ==
    quote.fn # "none" /\ quote.model \notin DOMAIN ModelCosts => quote.result = Null

\* the files of the workspace as the first optimize run found them differ from those on disk
Changed == \E f \in DOMAIN orig : f \notin DOMAIN disk \/ disk[f] # orig[f]

C12_EstimateIsCeilQuarter ==
    call.fn = "estimateTokens" =>
        /\ 4 * call.result >= CharLen(call.content)
        /\ 4 * (call.result - 1) < CharLen(call.content)

\* C13: assessCompressionPotential returns an integer from 0 to 100 for every text, the
\* empty text, a text with any number of matches and a text with more than 20 bullet
\* lines included.
C13_PotentialInRange == call.fn = "assessCompressionPotential" => call.result \in 0..100

\* the score of a text whose matches alone make more than 100 is 100
C13_Witness ==
    /\ call.fn = "assessCompressionPotential"
    /\ TwiceScore(call.content) > 200
    /\ call.result = 100

\* C14: when the original token count is 0 the savings percentage a compression reports
\* is the number 0, and never NaN.
C14_NoSavingsOfNothing ==
    call.fn = "compress" /\ call.impl = "AICompressor" /\ call.result.originalTokens = 0 =>
        call.result.savings = Number(0)

\* the patterns of the file-specific function of impl for filename
FilePatterns(impl, filename) ==
    IF impl = "AICompressor" THEN FileRules(filename) ELSE WsFilePatterns(filename)

\* C15: the file-specific function of a known name (MEMORY.md, USER.md, AGENTS.md) returns
\* the content unchanged when none of its block patterns matches the content.
C15_NoBlockNoRewrite ==
    call.fn = "fileSpecific" /\ ~MatchesAny(FilePatterns(call.impl, call.filename), call.content) =>
        call.result = call.content

\* C16: a compression runs the file-specific rules if and only if the file name is exactly
\* MEMORY.md, USER.md or AGENTS.md, and it never runs both the generic and the
\* file-specific rules on one document.
C16_RuleSetByName ==
    call.fn = "compress" =>
        /\ (\E i \in DOMAIN call.ruleSets : call.ruleSets[i] # "generic") <=> call.filename \in KnownNames
        /\ ~(\E i, j \in DOMAIN call.ruleSets : call.ruleSets[i] = "generic" /\ call.ruleSets[j] # "generic")

\* the atoms a rule's trigger phrase, bullet or header begins with
TriggerAtoms == Fillers \cup {"when", "please", "In", "It", "You", "If", "#", "-", "*", "^"}

\* text has no trigger word, no bullet, no header and no blank line
NoTriggers(text) ==
    /\ \A i \in DOMAIN text : FoldCase(text[i]) \notin TriggerAtoms
    /\ \A i \in 1..(Len(text) - 1) : ~(text[i] = "\n" /\ text[i + 1] = "\n")

\* C17: a text with no trigger phrase or word, no bullet, no header and no run of blank
\* lines comes out of the generic rules unchanged: the compressed text equals the input.
C17_NoTriggerNoChange ==
    /\ call.fn = "compress"
    /\ NoTriggers(call.content)
    /\ \A i \in DOMAIN call.ruleSets : call.ruleSets[i] = "generic"
    => call.result.compressed = call.content

\* every pattern a compression by impl under filename may apply
AllRules(impl, filename) ==
    IF impl = "AICompressor"
    THEN CompressionPatterns \o FileRules(filename) \o NotationRules
         \o <<[pattern |-> KeyValuePattern, replacement |-> <<>>]>>
    ELSE IF filename \in {"MEMORY.md", "USER.md"} THEN <<>>
    ELSE IF filename = "AGENTS.md" THEN WsAgentsRules
    ELSE WsGeneralRules

\* C18: when the text a compression returned matches none of the rule patterns, a second
\* compression of that text returns it unchanged.
C18_SecondPassUnchanged ==
    /\ call.fn = "compress"
    /\ call.pass = 2
    /\ ~MatchesAny(AllRules(call.impl, call.filename), call.content)
    => call.result.compressed = call.content

\* a second pass under rules with patterns, over a text that the first pass had changed
\* and that no pattern matches
C18_Witness ==
    /\ call.fn = "compress"
    /\ call.pass = 2
    /\ call.source # call.content
    /\ AllRules(call.impl, call.filename) # <<>>
    /\ ~MatchesAny(AllRules(call.impl, call.filename), call.content)
    /\ call.result.compressed = call.content

\* C19: the files a discovery returns are markdown files, and none is a backup (*.backup)
\* or a compressed copy (*.compressed.md); so for TokenAnalyzer.discoverWorkspaceFiles and
\* for WorkspaceCompressor.discoverFiles.
C19_DiscoveryFindsDocumentsOnly ==
    \A i \in DOMAIN last.batches :
        \A j \in DOMAIN last.batches[i].discovered :
            /\ StrEndsWith(last.batches[i].discovered[j], ".md")
            /\ ~StrEndsWith(last.batches[i].discovered[j], ".backup")
            /\ ~StrEndsWith(last.batches[i].discovered[j], ".compressed.md")

\* the last compression has the input of the first one of the session
SameAsEarlier ==
    /\ call.fn = "compress"
    /\ <<call.impl, call.content, call.filename>> = <<earlier.impl, earlier.content, earlier.filename>>

\* C20: the result of a compression depends on the content and the file name only: an
\* instance that has compressed other documents returns for the same input the same text.
C20_SameInputSameResult == SameAsEarlier => call.result.compressed = earlier.result

\* an instance compresses a document, then another input, then the first document again,
\* and a held pattern rewrites it
C20_Witness ==
    /\ SameAsEarlier
    /\ earlier.between
    /\ call.pass = MaxPass
    /\ call.result.compressed = earlier.result
    /\ call.impl = "AICompressor"
    /\ MatchesAny(CompressionPatterns, call.content)

\* the place of the one "When" of text that white space follows; 0 when there is not one
WhenAt(text) ==
    LET at == {i \in 1..(Len(text) - 1) : FoldCase(text[i]) = "when" /\ text[i + 1] \in WhiteSpace}
    IN IF Cardinality(at) = 1 THEN CHOOSE i \in at : TRUE ELSE 0

\* the first place from p on where text has one of atoms; Len(text) + 1 when there is none
FirstOf(text, p, atoms) ==
    LET at == {i \in p..Len(text) : text[i] \in atoms} \cup {Len(text) + 1}
    IN CHOOSE i \in at : \A j \in at : i <= j

\* text reads "... When X, Y" with one blank after "When" and one after the first comma, X
\* and Y not empty and Y on the line of the comma
WhenSentence(text) ==
    /\ WhenAt(text) > 0
    /\ WhenAt(text) + 2 <= Len(text)
    /\ text[WhenAt(text) + 2] \notin WhiteSpace \cup {","}
    /\ FirstOf(text, WhenAt(text), {","}) + 2 <= Len(text)
    /\ text[FirstOf(text, WhenAt(text), {","}) + 1] = " "
    /\ text[FirstOf(text, WhenAt(text), {","}) + 2] \notin WhiteSpace

\* "X (arrow) Y" in the place of "When X, Y": X ends before the first comma, Y is the rest
\* of the line
SplitAtFirstComma(text) ==
    LET w == WhenAt(text)
        c == FirstOf(text, w, {","})
    IN SubSeq(text, 1, w - 1) \o SubSeq(text, w + 2, c - 1) \o <<" ", ">", " ">>
       \o SubSeq(text, c + 2, Len(text))

\* C21: the rule for "When X, Y" rewrites it to "X (arrow) Y", split at the first comma
\* after "When": X holds no comma and Y is all that follows that comma.
C21_SplitAtFirstComma ==
    call.fn = "rule" /\ call.rule = 1 /\ WhenSentence(call.content) =>
        call.result = SplitAtFirstComma(call.content)

\* the rule has rewritten a sentence with two commas
C21_Witness ==
    /\ call.fn = "rule"
    /\ call.rule = 1
    /\ WhenSentence(call.content)
    /\ Cardinality({i \in DOMAIN call.content : call.content[i] = ","}) > 1
    /\ call.result = SplitAtFirstComma(call.content)
    /\ call.result # call.content

\* C22: the filler rule deletes every filler word (very, quite, rather, really, actually,
\* basically, essentially) wherever it stands, before punctuation and at the end of a line
\* as well, and leaves no two blanks in a row.
C22_NoFillerLeft ==
    call.fn = "rule" /\ call.rule = Len(CompressionPatterns) =>
        /\ \A i \in DOMAIN call.result : FoldCase(call.result[i]) \notin Fillers
        /\ \A i \in 1..(Len(call.result) - 1) : ~(call.result[i] = " " /\ call.result[i + 1] = " ")

\* the number of "#" in a row at place i of text
HashRun(text, i) == FirstOf(text, i, {a \in Range(text) : a # "#"}) - i

\* the levels of the header lines of text from place i on, in their order: a header line
\* starts with one or more "#" and a blank
RECURSIVE HeaderLevels(_, _)
HeaderLevels(text, i) ==
    IF i > Len(text) THEN <<>>
    ELSE LET n == HashRun(text, i)
             header == /\ i = 1 \/ text[i - 1] = "\n"
                       /\ n > 0
                       /\ i + n <= Len(text)
                       /\ text[i + n] = " "
         IN (IF header THEN <<n>> ELSE <<>>) \o HeaderLevels(text, i + 1)

\* C23: one compression moves every header line down exactly one level, "# " to "## " and
\* "## " to "### ", and none of them twice.
C23_HeadersOneLevelDown ==
    call.fn = "compress" /\ call.pass = 1 /\ call.filename = "SOUL.md" =>
        HeaderLevels(call.result.compressed, 1)
            = [k \in DOMAIN HeaderLevels(call.content, 1) |-> HeaderLevels(call.content, 1)[k] + 1]

\* the lengths of the runs of line breaks of text from place i on, in their order; a run of
\* n line breaks after a line is n - 1 blank lines
RECURSIVE NewlineRuns(_, _)
NewlineRuns(text, i) ==
    IF i > Len(text) THEN <<>>
    ELSE LET starts == text[i] = "\n" /\ (i = 1 \/ text[i - 1] # "\n")
             n == FirstOf(text, i, {a \in Range(text) : a # "\n"}) - i
         IN (IF starts THEN <<n>> ELSE <<>>) \o NewlineRuns(text, i + 1)

\* C24: the general compression turns every run of three or more blank lines into one
\* blank line and leaves shorter runs of blank lines as they are, so that no run of three
\* or more blank lines is left.
C24_BlankLineRuns ==
    call.fn = "compress" /\ call.impl = "WorkspaceCompressor" /\ call.filename = "SOUL.md" =>
        /\ NewlineRuns(call.result.compressed, 1)
               = [k \in DOMAIN NewlineRuns(call.content, 1) |->
                      IF NewlineRuns(call.content, 1)[k] >= 4 THEN 2
                      ELSE NewlineRuns(call.content, 1)[k]]
        /\ \A k \in DOMAIN NewlineRuns(call.result.compressed, 1) :
               NewlineRuns(call.result.compressed, 1)[k] < 4

\* C25: handleCommand always resolves to a result object: to the help result for a command
\* that is not one of the skill's commands, and to a result with success false and a message
\* when the handler throws.
C25_AlwaysAResult ==
    call.fn = "handleCommand" =>
        /\ call.result.kind = "result"
        /\ call.filename \notin OwnCommands => call.result = HelpResult
        /\ call.filename \in OwnCommands /\ call.source[1].kind = "throw" =>
               ~call.result.success /\ call.result.message = "error"

\* the lines the models command is to show for a system prompt of size tokens: one for each
\* model that costs less a month than the current one, with its monthly cost and the saving
CheaperModels(size) ==
    {m \in DOMAIN ModelCosts :
        CalculateMonthlyCosts(size, SessionsPerWeek, m).monthly
            < CalculateMonthlyCosts(size, SessionsPerWeek, DetectCurrentModel).monthly}

\* C26: the models command succeeds for every workspace that can be analyzed: it returns
\* success with one line for each cheaper model, showing the model's monthly cost and the
\* monthly saving, the lines ordered by decreasing saving.
C26_ModelsSucceeds ==
    quote.fn = "modelsCommand" =>
        /\ quote.result.kind = "result"
        /\ quote.result.success
        /\ {quote.result.message[k].model : k \in DOMAIN quote.result.message} = CheaperModels(quote.arg)
        /\ Len(quote.result.message) = Cardinality(CheaperModels(quote.arg))
        /\ \A k \in DOMAIN quote.result.message :
               /\ quote.result.message[k].cost
                      = Number(CalculateMonthlyCosts(quote.arg, SessionsPerWeek,
                                                     quote.result.message[k].model).monthly)
               /\ k > 1 => quote.result.message[k - 1].saving.value
                               >= quote.result.message[k].saving.value

\* the step is a "revert all" that completed: optimizer.js revert [all] or /optimize revert all
RevertAllStep ==
    /\ commands' = commands + 1
    /\ \/ last'.cmd = "revert" /\ last'.args \in {<<"">>, <<"all">>}
       \/ last'.cmd = "revertCommand" /\ last'.args = <<"all">>
    /\ ~last'.threw

\* the backups of dir
BackupsOf(dir) == {b \in DOMAIN dir : StrEndsWith(b, ".backup")}

\* C27: when "revert all" has completed, no .backup file is left in the workspace and every
\* file F that had a backup F.backup holds exactly what that backup held.
C27_RevertAllRestores ==
    [][RevertAllStep =>
          /\ BackupsOf(disk') = {}
          /\ \A b \in BackupsOf(disk) :
                 /\ SubSeq(b, 1, Len(b) - 7) \in DOMAIN disk'
                 /\ disk'[SubSeq(b, 1, Len(b) - 7)] = disk[b]]_vars

\* the step is a call of disablePersistentMode
DisableStep == commands' = commands + 1 /\ last'.cmd = "disablePersistentMode"

\* text without the len atoms from place i on
Without(text, i, len) == SubSeq(text, 1, i - 1) \o SubSeq(text, i + len, Len(text))

\* C29: disablePersistentMode right after enablePersistentMode leaves AGENTS.md with exactly
\* the content it had before, and disablePersistentMode removes the persistent-mode section
\* only: what follows the section stays.
C29_EnableDisableRoundTrip ==
    [][DisableStep =>
          /\ trace = "enabled" => disk'["AGENTS.md"] = orig["AGENTS.md"]
          /\ \A i \in Occurrences(disk["AGENTS.md"], PersistentInstruction) :
                 disk'["AGENTS.md"] = Without(disk["AGENTS.md"], i, Len(PersistentInstruction))]_vars

\* the step is a preview: /optimize preview, or showDashboard with previewOptimizations
PreviewStep == commands' = commands + 1 /\ last'.cmd \in {"preview", "dashboard"}

\* C30: a preview never creates, changes or deletes a file of the workspace, whatever
\* commands ran before it.
C30_PreviewReadsOnly == [][PreviewStep => disk' = disk]_vars

\* a preview of one file has returned, in a workspace where an earlier command has
\* left a backup or a compressed copy
C30_Witness ==
    /\ last.cmd = "preview"
    /\ last.args = <<"SOUL.md">>
    /\ last.returned
    /\ Len(last.results) = 1
    /\ commands > 1
    /\ \E f \in DOMAIN disk : StrEndsWith(f, ".backup") \/ StrEndsWith(f, ".compressed.md")

\* C28: when every invocation of the text dashboard has finished, console.log is the
\* original function again, and the output an invocation has captured holds no line that
\* another invocation logged.
C28_CaptureConfined ==
    /\ (\A i \in Invocations : console.pc[i] \in {"idle", "done"}) => console.log = OriginalLog
    /\ \A i \in Invocations :
           \A k \in DOMAIN console.output[i] : console.output[i][k][1] = i

====
